---- MODULE Spec2Model ----
(***************************************************************************)
(* A model of tiny-http (internal/server): the router, the request         *)
(* pipeline (handleRequest, the middlewares, the file handler) and the     *)
(* connection / accept / shutdown lifecycle.                                *)
(*                                                                         *)
(* Text is modelled as a sequence of units.  A unit is one character,      *)
(* written as a one-character string, except for three multi-character     *)
(* units that are only ever handled whole: the percent escapes "%2e",      *)
(* "%2f" (of "." and "/") and "%zz" (an invalid one), the file name stem    *)
(* "index" and the extensions ".txt", ".css", ".png", ".html".             *)
(***************************************************************************)
EXTENDS Integers, Sequences, FiniteSets, TLC

VARIABLES
    \* ---- router (HTTPRouter) ----
    handlers,      \* exact-match map: route text -> handler id
    patterns,      \* ordered list of compiled patterns
    calls,         \* history: the AddRoute calls made so far, in order
    matchPath,     \* argument of the last Match call (NoPath before any)
    matchResult,   \* result of the last Match call
    matchAt,       \* history: how many AddRoute calls preceded the last Match
    mu,            \* HTTPRouter.mu, the lock of the route table
    gs             \* the goroutines that call the router while it is shared

routerVars ==
    <<handlers, patterns, calls, matchPath, matchResult, matchAt, mu, gs>>

VARIABLES
    \* ---- one request against the server (handleRequest, FileHandler) ----
    fs,            \* the file system: absolute path -> node
    req,           \* the request under study, without its method
    served,        \* method -> what handleRequest returned for req with it
    direct,        \* what FileHandler.Handle()(GET req) returned, if called
    again,         \* what handleRequest returned for a second GET of req
    \* ---- one middleware around a handler (middleware.go) ----
    handled,       \* what the wrapped handler, next(req), returns
    wrapped,       \* middleware -> what middleware(next)(GET req) returned
    \* ---- the parser on a byte stream (parseRequest) ----
    stream,        \* the bytes of the reader, up to its end
    parsed,        \* what the successive parseRequest calls returned
    writes,        \* method -> what writeResponse did with the response served
    heap,          \* the header maps in memory: heap[a] is the map at address a
    built          \* the responses built so far, each with its map's address

requestVars ==
    <<fs, req, served, direct, again, handled, wrapped, stream, parsed, writes,
      heap, built>>

VARIABLES
    \* ---- a running server (ListenAndServe, Shutdown, handleConnection) ----
    ctxDone,       \* the context given to ListenAndServe is cancelled
    sigDone,       \* SIGINT or SIGTERM was delivered to the process
    listener,      \* s.listener: "nil", "open" or "closed"
    shutdown,      \* s.shutdown
    wg,            \* the counter of s.wg
    connErrors,    \* how many errors the channel connErrors holds
    acceptErrs,    \* how many accept errors will still be queued
    quota,         \* how many requests the peers will still write
    las,           \* the ListenAndServe call: where it is and what it returned
    acceptor,      \* the accept goroutine: where it is, the connection it holds
    sd,            \* the Shutdown calls, by caller: where each is, its result
    conns          \* the connections: peer side and handler side

serverVars == <<ctxDone, sigDone, listener, shutdown, wg, connErrors, acceptErrs,
                quota, las, acceptor, sd, conns>>

vars == <<routerVars, requestVars, serverVars>>

\* no server is running: the lifecycle variables of the router and request
\* specifications
NoServer ==
    /\ ctxDone = FALSE /\ sigDone = FALSE /\ listener = "nil" /\ shutdown = FALSE
    /\ wg = 0 /\ connErrors = 0 /\ acceptErrs = 0 /\ quota = 0
    /\ las = << >> /\ acceptor = << >> /\ sd = << >> /\ conns = << >>

---------------------------------------------------------------------------
(* Bounds *)

MaxRoutes == 3
MaxConns == 2
MaxRequests == 1
MaxExchanges == 2
MaxAcceptErrors == 1
\* capacity of connErrors
ChanCap == 100

---------------------------------------------------------------------------
(* Text helpers *)

\* strings.HasPrefix
HasPrefix(s, prefix) ==
    /\ Len(prefix) <= Len(s)
    /\ SubSeq(s, 1, Len(prefix)) = prefix

\* strings.HasSuffix
HasSuffix(s, suffix) ==
    /\ Len(suffix) <= Len(s)
    /\ SubSeq(s, Len(s) - Len(suffix) + 1, Len(s)) = suffix

\* strings.TrimPrefix
TrimPrefix(s, prefix) ==
    IF HasPrefix(s, prefix) THEN SubSeq(s, Len(prefix) + 1, Len(s)) ELSE s

\* the units of s from position i on
From(s, i) == SubSeq(s, i, Len(s))

Units(s) == {s[i] : i \in 1..Len(s)}

\* strings.Index(s, u) for a single unit u: the first position, 0 when absent
IndexOf(s, u) ==
    IF u \in Units(s) THEN CHOOSE i \in 1..Len(s) : s[i] = u /\ \A j \in 1..(i-1) : s[j] # u
    ELSE 0

\* strings.Cut(s, u): the text before the first u (all of s when u is absent)
CutBefore(s, u) == IF IndexOf(s, u) = 0 THEN s ELSE SubSeq(s, 1, IndexOf(s, u) - 1)

\* the text from the first u on, u included (empty when u is absent)
CutFrom(s, u) == IF IndexOf(s, u) = 0 THEN <<>> ELSE From(s, IndexOf(s, u))

---------------------------------------------------------------------------
(* Paths: net/url.Parse, path.Clean, filepath.Join *)

Slash == <<"/">>
Dot == <<".">>
DotDot == <<".", ".">>

\* the elements between the separators of s, empty ones included
RECURSIVE SplitSlash(_)
SplitSlash(s) ==
    IF "/" \notin Units(s) THEN <<s>>
    ELSE <<CutBefore(s, "/")>> \o SplitSlash(From(s, IndexOf(s, "/") + 1))

\* strings.Join(elems, "/")
RECURSIVE JoinSlash(_)
JoinSlash(elems) ==
    IF elems = <<>> THEN <<>>
    ELSE IF Len(elems) = 1 THEN elems[1]
    ELSE elems[1] \o Slash \o JoinSlash(Tail(elems))

\* path.Clean's element loop: out holds the elements kept so far
RECURSIVE CleanElems(_, _, _)
CleanElems(elems, out, rooted) ==
    IF elems = <<>> THEN out
    ELSE LET e == Head(elems)
             rest == Tail(elems)
         IN  IF e = <<>> \/ e = Dot THEN CleanElems(rest, out, rooted)
             ELSE IF e = DotDot THEN
                 IF out # <<>> /\ out[Len(out)] # DotDot
                 THEN CleanElems(rest, SubSeq(out, 1, Len(out) - 1), rooted)
                 ELSE IF rooted THEN CleanElems(rest, out, rooted)
                 ELSE CleanElems(rest, Append(out, DotDot), rooted)
             ELSE CleanElems(rest, Append(out, e), rooted)

\* path.Clean (and filepath.Clean, the separator being "/")
Clean(p) ==
    IF p = <<>> THEN Dot
    ELSE LET rooted == p[1] = "/"
             kept == JoinSlash(CleanElems(SplitSlash(p), <<>>, rooted))
         IN  IF rooted THEN Slash \o kept
             ELSE IF kept = <<>> THEN Dot
             ELSE kept

\* filepath.Join(a, b): empty elements are ignored, the result is cleaned
Join(a, b) ==
    IF a = <<>> /\ b = <<>> THEN <<>>
    ELSE IF b = <<>> THEN Clean(a)
    ELSE IF a = <<>> THEN Clean(b)
    ELSE Clean(a \o Slash \o b)

\* percent-decoding of one unit ("%zz" stands for an invalid escape)
Unescape1(u) == IF u = "%2e" THEN "." ELSE IF u = "%2f" THEN "/" ELSE u
Unescape(s) == [i \in 1..Len(s) |-> Unescape1(s[i])]

\* net/url.Parse(raw).Path and its error.  The fragment and the query are cut
\* off; a text starting with exactly two slashes has an authority up to the
\* next slash, which is not part of the path; the path is percent-decoded.
\* (No text of the model holds ":", so no scheme is ever found.)
URLRest(raw) == CutBefore(CutBefore(raw, "#"), "?")
URLHasAuthority(raw) ==
    HasPrefix(URLRest(raw), <<"/", "/">>) /\ ~HasPrefix(URLRest(raw), <<"/", "/", "/">>)
URLRawPath(raw) ==
    IF URLHasAuthority(raw)
    THEN CutFrom(From(URLRest(raw), 3), "/")
    ELSE URLRest(raw)
URLParseFails(raw) == "%zz" \in Units(URLRawPath(raw))
URLPath(raw) == Unescape(URLRawPath(raw))

---------------------------------------------------------------------------
(* Router *)

\* the characters AddRoute treats as a sign of a regular expression
RegexMetaChars == {"^", "$", ".", "*", "+", "?", "{", "}", "[", "]", "|", "(", ")"}

\* strings.ContainsAny(pattern, "^$.*+?{}[]|()")
isRegexPattern(pattern) == Units(pattern) \cap RegexMetaChars # {}

\* regexp.Compile succeeds.  Covers the expressions the model registers:
\* literals, ".", a "*" after a literal or ".", a leading "^", a trailing
\* "$", and "(" (never closed here, so always a syntax error).  A "*" with
\* nothing to repeat and a doubled "*" are syntax errors.
Compiles(pattern) ==
    /\ "(" \notin Units(pattern)
    /\ \A i \in 1..Len(pattern) :
          pattern[i] = "*" => (i > 1 /\ pattern[i-1] \notin {"*", "^"})

\* Regular-expression matching of the compiled subset against all of `text`
\* from its first unit (no search): re is what is left of the expression.
RECURSIVE MatchHere(_, _)
MatchHere(re, text) ==
    IF re = <<>> THEN TRUE
    ELSE IF Len(re) >= 2 /\ re[2] = "*" THEN
        \* re[1]* : any number k of units matched by re[1], then the rest
        \E k \in 0..Len(text) :
            /\ \A j \in 1..k : re[1] = "." \/ text[j] = re[1]
            /\ MatchHere(From(re, 3), From(text, k + 1))
    ELSE IF re = <<"$">> THEN text = <<>>
    ELSE /\ text # <<>>
         /\ (re[1] = "." \/ re[1] = text[1])
         /\ MatchHere(Tail(re), Tail(text))

\* regexp.Regexp.MatchString: the expression matches somewhere in the text
MatchString(re, text) ==
    IF re # <<>> /\ re[1] = "^"
    THEN MatchHere(Tail(re), text)
    ELSE \E i \in 1..(Len(text) + 1) : MatchHere(re, From(text, i))

\* the handlers a route can be bound to
HandlerIds == {"h1", "h2"}

\* "/a"  "^/a.*$"  "^/.*$"  "/a("  "a."  "*a"
RoutePatterns ==
    { <<"/", "a">>,
      <<"^", "/", "a", ".", "*", "$">>,
      <<"^", "/", ".", "*", "$">>,
      <<"/", "a", "(">>,
      <<"a", ".">>,
      <<"*", "a">> }

\* "/a"  "/b"  "/ab"  "b"  "/a("  "*a"
MatchPaths ==
    { <<"/", "a">>,
      <<"/", "b">>,
      <<"/", "a", "b">>,
      <<"b">>,
      <<"/", "a", "(">>,
      <<"*", "a">> }

NoPath == <<"<none>">>
NotFound == [found |-> FALSE, handler |-> "nil"]
Found(h) == [found |-> TRUE, handler |-> h]

\* HTTPRouter.AddRoute: the new exact map and pattern list
AddRouteHandlers(hs, pattern, handler) ==
    IF isRegexPattern(pattern) /\ Compiles(pattern)
    THEN hs
    ELSE [p \in (DOMAIN hs) \cup {pattern} |->
             IF p = pattern THEN handler ELSE hs[p]]

\* mutant of AddRoutePatterns: the new pattern is put in front of the list
Mutant_AddRoutePatterns_InFront(ps, pattern, handler) ==
    IF isRegexPattern(pattern) /\ Compiles(pattern)
    THEN <<[pattern |-> pattern, handler |-> handler]>> \o ps
    ELSE ps

AddRoutePatterns(ps, pattern, handler) ==
    IF isRegexPattern(pattern) /\ Compiles(pattern)
    THEN Append(ps, [pattern |-> pattern, handler |-> handler])
    ELSE ps

\* mutant of FirstMatch: the last matching pattern instead of the first
Mutant_FirstMatch_Last(ps, path) ==
    IF \E i \in 1..Len(ps) : MatchString(ps[i].pattern, path)
    THEN CHOOSE i \in 1..Len(ps) :
            /\ MatchString(ps[i].pattern, path)
            /\ \A j \in (i+1)..Len(ps) : ~MatchString(ps[j].pattern, path)
    ELSE 0

\* the first index of ps whose pattern matches path, 0 when none does
FirstMatch(ps, path) ==
    IF \E i \in 1..Len(ps) : MatchString(ps[i].pattern, path)
    THEN CHOOSE i \in 1..Len(ps) :
            /\ MatchString(ps[i].pattern, path)
            /\ \A j \in 1..(i-1) : ~MatchString(ps[j].pattern, path)
    ELSE 0

\* mutant of Match: the patterns are scanned before the exact map is consulted
Mutant_Match_PatternsFirst(hs, ps, path) ==
    IF FirstMatch(ps, path) # 0 THEN Found(ps[FirstMatch(ps, path)].handler)
    ELSE IF path \in DOMAIN hs THEN Found(hs[path])
    ELSE NotFound

\* HTTPRouter.Match
Match(hs, ps, path) ==
    IF path \in DOMAIN hs THEN Found(hs[path])
    ELSE IF FirstMatch(ps, path) # 0 THEN Found(ps[FirstMatch(ps, path)].handler)
    ELSE NotFound

\* NewHTTPRouter
RouterInit ==
    /\ NoServer
    /\ fs = << >> /\ req = << >> /\ served = << >> /\ direct = << >>
    /\ handled = << >> /\ wrapped = << >>
    /\ stream = << >> /\ parsed = << >> /\ again = << >> /\ writes = << >>
    /\ heap = << >> /\ built = << >>
    /\ handlers = << >>
    /\ patterns = << >>
    /\ calls = << >>
    /\ matchPath = NoPath
    /\ matchResult = NotFound
    /\ matchAt = 0 /\ mu = << >> /\ gs = << >>

AddRoute(pattern, handler) ==
    /\ Len(calls) < MaxRoutes
    /\ handlers' = AddRouteHandlers(handlers, pattern, handler)
    /\ patterns' = AddRoutePatterns(patterns, pattern, handler)
    /\ calls' = Append(calls, [pattern |-> pattern, handler |-> handler])
    /\ UNCHANGED <<matchPath, matchResult, matchAt, mu, gs, requestVars, serverVars>>

DoMatch(path) ==
    /\ matchPath' = path
    /\ matchResult' = Match(handlers, patterns, path)
    /\ matchAt' = Len(calls)
    /\ UNCHANGED <<handlers, patterns, calls, mu, gs, requestVars, serverVars>>

RouterNext ==
    \/ \E p \in RoutePatterns, h \in HandlerIds : AddRoute(p, h)
    \/ \E path \in MatchPaths : DoMatch(path)

SpecRouter == RouterInit /\ [][RouterNext]_vars

---------------------------------------------------------------------------
(* Router claims, stated over the history of AddRoute calls *)

\* the AddRoute calls that preceded the last Match
Before == SubSeq(calls, 1, matchAt)

\* call c registered an exact route: no metacharacter, or one that fails to compile
ExactCall(c) == ~isRegexPattern(c.pattern) \/ ~Compiles(c.pattern)

ExactCallsFor(path) ==
    {i \in 1..Len(Before) : ExactCall(Before[i]) /\ Before[i].pattern = path}

PatternCallsMatching(path) ==
    {i \in 1..Len(Before) :
        ~ExactCall(Before[i]) /\ MatchString(Before[i].pattern, path)}

Max(S) == CHOOSE x \in S : \A y \in S : y <= x
Min(S) == CHOOSE x \in S : \A y \in S : x <= y

\* C4: a path registered as an exact route resolves to the exact route's
\* handler (the latest registration of that path), however many patterns
\* match it and whether they were registered before or after it.
C4_ExactWins ==
    (matchPath # NoPath /\ ExactCallsFor(matchPath) # {}) =>
        matchResult = Found(Before[Max(ExactCallsFor(matchPath))].handler)

\* C4 witness: an exact route resolved while a pattern registered before it
\* and a pattern registered after it, bound to another handler, match too.
C4_Witness ==
    /\ matchPath # NoPath
    /\ ExactCallsFor(matchPath) # {}
    /\ \E i, j \in PatternCallsMatching(matchPath) :
          /\ i < Min(ExactCallsFor(matchPath))
          /\ j > Max(ExactCallsFor(matchPath))
          /\ Before[i].handler # matchResult.handler
          /\ Before[j].handler # matchResult.handler
    /\ matchResult.found

\* C5: without an exact route for the path, Match returns the handler of the
\* first pattern in registration order that matches, and not-found when no
\* pattern matches.
C5_FirstPatternOrNotFound ==
    (matchPath # NoPath /\ ExactCallsFor(matchPath) = {}) =>
        IF PatternCallsMatching(matchPath) # {}
        THEN matchResult = Found(Before[Min(PatternCallsMatching(matchPath))].handler)
        ELSE matchResult = NotFound

\* C5 witness: two matching patterns bound to different handlers, no exact
\* route, and the earlier one was returned.
C5_Witness ==
    /\ matchPath # NoPath
    /\ ExactCallsFor(matchPath) = {}
    /\ \E i, j \in PatternCallsMatching(matchPath) :
          /\ i < j
          /\ Before[i].handler # Before[j].handler
          /\ matchResult = Found(Before[i].handler)

\* C5 witness for the not-found case is covered by the same invariant; this
\* names a state where routes exist and none matches.
C5_NotFoundReached ==
    /\ matchPath # NoPath
    /\ Len(Before) > 0
    /\ matchResult = NotFound

---------------------------------------------------------------------------
(* Requests and responses (http.go) *)

\* Go's map lookup: the zero value "" for a missing key
Get(h, k) == IF k \in DOMAIN h THEN h[k] ELSE ""

\* h[k] = v
Set(h, k, v) == [x \in (DOMAIN h) \cup {k} |-> IF x = k THEN v ELSE h[x]]

\* A nil map[string]string: it reads like the empty map, but an assignment
\* to an entry of it panics.  It is told from the empty map by a key that no
\* header has.
NilMap == [k \in {"(nil)"} |-> ""]

\* A byte sequence: what it holds (id), how long it is, and whether it is
\* the gzip encoding of that content.
Bytes(id, n) == [id |-> id, len |-> n, enc |-> "raw"]
NilBody == Bytes(<<>>, 0)

\* Response.Reader: nil, or an open file
NilReader == [set |-> FALSE, file |-> <<>>]
FileReader(path) == [set |-> TRUE, file |-> path]

NilResponse ==
    [StatusCode |-> 0, StatusText |-> "", Protocol |-> "", Headers |-> << >>,
     Body |-> NilBody, Reader |-> NilReader]

DefaultResponseHeaders ==
    [k \in {"Accept-Ranges", "Cache-Control", "Connection", "Content-Encoding",
            "Content-Type", "Server"} |->
        CASE k = "Accept-Ranges"    -> "bytes"
          [] k = "Cache-Control"    -> "no-cache"
          [] k = "Connection"       -> "keep-alive"
          [] k = "Content-Encoding" -> "identity"
          [] k = "Content-Type"     -> "text/plain; charset=utf-8"
          [] k = "Server"           -> "tiny-http/0.1"]

\* copyHeaders: a new map with the same entries
copyHeaders(src) == [k \in DOMAIN src |-> src[k]]

\* HTTPBaseResponse: the body is fmt.Sprintf("%d %s", statusCode, statusText)
HTTPBaseResponse(statusCode, statusText) ==
    LET text == ToString(statusCode) \o " " \o statusText
        body == Bytes(<<text>>, Len(text))
    IN  [StatusCode |-> statusCode,
         StatusText |-> statusText,
         Protocol   |-> "HTTP/1.1",
         Headers    |-> Set(Set(copyHeaders(DefaultResponseHeaders),
                                "Content-Length", ToString(body.len)),
                            "Content-Type", "text/plain; charset=utf-8"),
         Body       |-> body,
         Reader     |-> NilReader]

HTTP400BadRequest == HTTPBaseResponse(400, "Bad Request")
HTTP404NotFound == HTTPBaseResponse(404, "Not Found")
HTTP405MethodNotAllowed ==
    LET response == HTTPBaseResponse(405, "Method Not Allowed")
    IN  [response EXCEPT !.Headers = Set(response.Headers, "Allow", "GET, HEAD")]
HTTP500InternalServerError == HTTPBaseResponse(500, "Internal Server Error")

\* what a HandlerFunc returns: (response, error) and the events it logged
Ok(response, log) == [resp |-> response, err |-> "", log |-> log]
Fail(err, log) == [resp |-> NilResponse, err |-> err, log |-> log]

---------------------------------------------------------------------------
(* The file system seen by the file handler *)

File(size, readable) ==
    [kind |-> "file", size |-> size, readable |-> readable, mtime |-> 1]
Dir == [kind |-> "dir", size |-> 0, readable |-> TRUE, mtime |-> 1]

\* the served root, h.FileDirectory (absolute and clean)
FileDirectory == <<"/", "w">>

IndexName == <<"index", ".html">>

\*  /  /w  /w/a.txt  /w/b.css  /w/c.png  /w/d/index.html  /w/e  /w/s.txt
\*  /w/p/index.html (which, like /w/s.txt, the server may not read)
\*  and, outside the root, /wx/a.txt and /x
FSNoIndex ==
      (<<"/">> :> Dir)
   @@ (<<"/", "w">> :> Dir)
   @@ (<<"/", "w", "/", "a", ".txt">> :> File(20, TRUE))
   @@ (<<"/", "w", "/", "b", ".css">> :> File(2000, TRUE))
   @@ (<<"/", "w", "/", "c", ".png">> :> File(1048577, TRUE))
   @@ (<<"/", "w", "/", "d">> :> Dir)
   @@ (<<"/", "w", "/", "d", "/", "index", ".html">> :> File(30, TRUE))
   @@ (<<"/", "w", "/", "e">> :> Dir)
   @@ (<<"/", "w", "/", "s", ".txt">> :> File(20, FALSE))
   @@ (<<"/", "w", "/", "p">> :> Dir)
   @@ (<<"/", "w", "/", "p", "/", "index", ".html">> :> File(30, FALSE))
   @@ (<<"/", "w", "x">> :> Dir)
   @@ (<<"/", "w", "x", "/", "a", ".txt">> :> File(20, TRUE))
   @@ (<<"/", "x">> :> File(20, TRUE))

\* the same with /w/index.html
FSIndex == (<<"/", "w", "/", "index", ".html">> :> File(1500, TRUE)) @@ FSNoIndex

FileSystems == {FSNoIndex, FSIndex}

\* the path of the first k elements of the absolute path p
Ancestor(p, k) == Slash \o JoinSlash(SubSeq(CleanElems(SplitSlash(p), <<>>, TRUE), 1, k))
Depth(p) == Len(CleanElems(SplitSlash(p), <<>>, TRUE))

\* os.Stat's error for the absolute path p: "" (none), "ENOENT" when an
\* element is missing, "ENOTDIR" when an element before the last is a file
StatErr(files, p) ==
    LET missing == {k \in 1..Depth(p) : Ancestor(p, k) \notin DOMAIN files}
        notdir  == {k \in 1..(Depth(p) - 1) :
                       Ancestor(p, k) \in DOMAIN files
                       /\ files[Ancestor(p, k)].kind # "dir"}
        first(S) == CHOOSE k \in S : \A j \in S : k <= j
    IN  IF missing = {} /\ notdir = {} THEN ""
        ELSE IF notdir # {} /\ (missing = {} \/ first(notdir) < first(missing))
        THEN "ENOTDIR"
        ELSE "ENOENT"

\* os.IsNotExist
IsNotExist(err) == err = "ENOENT"

\* os.Open's error: the file cannot be read
OpenErr(files, p) == IF files[p].readable THEN "" ELSE "EACCES"

---------------------------------------------------------------------------
(* The file handler (handlers.go) *)

streamThreshold == 1048576

\* the units an extension starts with
DotUnits == {".", ".txt", ".css", ".png", ".html"}

\* filepath.Ext: from the last dot of the last element on
Ext(p) ==
    LET elem == From(p, Max({0} \cup {i \in 1..Len(p) : p[i] = "/"}) + 1)
        dots == {i \in 1..Len(elem) : elem[i] \in DotUnits}
    IN  IF dots = {} THEN <<>> ELSE From(elem, Max(dots))

\* FileHandler.detectContentType: the table, then the system's table (which
\* knows none of the other extensions here), then the default
detectContentType(filename) ==
    CASE Ext(filename) = <<".html">> -> "text/html; charset=utf-8"
      [] Ext(filename) = <<".css">>  -> "text/css; charset=utf-8"
      [] Ext(filename) = <<".txt">>  -> "text/plain; charset=utf-8"
      [] Ext(filename) = <<".png">>  -> "image/png"
      [] OTHER                       -> "text/plain; charset=utf-8"

\* FileHandler.shouldCache
shouldCache(filename) == Ext(filename) \in {<<".css">>, <<".png">>}

\* fileInfo.ModTime().UTC().Format(http.TimeFormat)
HTTPTime(mtime) == "mtime " \o ToString(mtime)

\* mutant of ServeFile: a file of exactly the threshold size is streamed too
Mutant_ServeFile_AtThreshold(request, files, fullPath) ==
    LET fileInfo == files[fullPath]
        base == [k \in {"Content-Type", "Content-Length", "Last-Modified",
                        "Accept-Ranges"} |->
                    CASE k = "Content-Type"   -> detectContentType(fullPath)
                      [] k = "Content-Length" -> ToString(fileInfo.size)
                      [] k = "Last-Modified"  -> HTTPTime(fileInfo.mtime)
                      [] k = "Accept-Ranges"  -> "bytes"]
        headers == IF shouldCache(fullPath)
                   THEN Set(base, "Cache-Control", "public, max-age=3600")
                   ELSE base
        response == [StatusCode |-> 200, StatusText |-> "OK",
                     Protocol |-> request.Protocol, Headers |-> headers,
                     Body |-> NilBody, Reader |-> NilReader]
    IN  IF OpenErr(files, fullPath) # "" THEN Fail("failed to open file", <<>>)
        ELSE IF fileInfo.size >= streamThreshold
        THEN Ok([response EXCEPT !.Reader = FileReader(fullPath)], <<>>)
        ELSE IF fileInfo.kind = "dir" THEN Fail("failed to read file", <<>>)
        ELSE Ok([response EXCEPT !.Body = Bytes(fullPath, fileInfo.size)], <<>>)

\* mutant of ServeFile: a file above the threshold is read into Body as well
Mutant_ServeFile_ReadsToo(request, files, fullPath) ==
    LET fileInfo == files[fullPath]
        base == [k \in {"Content-Type", "Content-Length", "Last-Modified",
                        "Accept-Ranges"} |->
                    CASE k = "Content-Type"   -> detectContentType(fullPath)
                      [] k = "Content-Length" -> ToString(fileInfo.size)
                      [] k = "Last-Modified"  -> HTTPTime(fileInfo.mtime)
                      [] k = "Accept-Ranges"  -> "bytes"]
        headers == IF shouldCache(fullPath)
                   THEN Set(base, "Cache-Control", "public, max-age=3600")
                   ELSE base
        response == [StatusCode |-> 200, StatusText |-> "OK",
                     Protocol |-> request.Protocol, Headers |-> headers,
                     Body |-> NilBody, Reader |-> NilReader]
    IN  IF OpenErr(files, fullPath) # "" THEN Fail("failed to open file", <<>>)
        ELSE IF fileInfo.kind = "dir" THEN Fail("failed to read file", <<>>)
        ELSE IF fileInfo.size > streamThreshold
        THEN Ok([response EXCEPT !.Reader = FileReader(fullPath),
                                 !.Body = Bytes(fullPath, fileInfo.size)], <<>>)
        ELSE Ok([response EXCEPT !.Body = Bytes(fullPath, fileInfo.size)], <<>>)

\* FileHandler.Handle, from the response construction on: fullPath exists
ServeFile(request, files, fullPath) ==
    LET fileInfo == files[fullPath]
        base == [k \in {"Content-Type", "Content-Length", "Last-Modified",
                        "Accept-Ranges"} |->
                    CASE k = "Content-Type"   -> detectContentType(fullPath)
                      [] k = "Content-Length" -> ToString(fileInfo.size)
                      [] k = "Last-Modified"  -> HTTPTime(fileInfo.mtime)
                      [] k = "Accept-Ranges"  -> "bytes"]
        headers == IF shouldCache(fullPath)
                   THEN Set(base, "Cache-Control", "public, max-age=3600")
                   ELSE base
        response == [StatusCode |-> 200, StatusText |-> "OK",
                     Protocol |-> request.Protocol, Headers |-> headers,
                     Body |-> NilBody, Reader |-> NilReader]
    IN  IF OpenErr(files, fullPath) # "" THEN Fail("failed to open file", <<>>)
        ELSE IF fileInfo.size > streamThreshold
        THEN Ok([response EXCEPT !.Reader = FileReader(fullPath)], <<>>)
        ELSE IF fileInfo.kind = "dir" THEN Fail("failed to read file", <<>>)
        ELSE Ok([response EXCEPT !.Body = Bytes(fullPath, fileInfo.size)], <<>>)

\* FileHandler.Handle, the directory check: index.html of a directory
ServeFileOrIndex(request, files, fullPath) ==
    IF files[fullPath].kind = "dir"
    THEN IF StatErr(files, Join(fullPath, IndexName)) = ""
         THEN ServeFile(request, files, Join(fullPath, IndexName))
         ELSE Ok(HTTP404NotFound, <<>>)
    ELSE ServeFile(request, files, fullPath)

\* the path FileHandler.Handle resolves the request path to
CleanPath(request) == TrimPrefix(Clean(URLPath(request.Path)), Slash)
FullPath(request) == Join(FileDirectory, CleanPath(request))

\* the containment check of FileHandler.Handle
WithinBase(fullPath, absBase) == HasPrefix(fullPath, absBase)

\* FileHandler.Handle
FileHandler(request, files) ==
    LET cleanPath == CleanPath(request)
        fullPath == FullPath(request)
        indexPath == Join(fullPath, IndexName)
    IN  IF URLParseFails(request.Path) THEN Fail("invalid URL path", <<>>)
        ELSE IF ~WithinBase(fullPath, FileDirectory) THEN Ok(HTTP404NotFound, <<>>)
        ELSE IF StatErr(files, fullPath) # "" THEN
            IF IsNotExist(StatErr(files, fullPath)) THEN
                IF (HasSuffix(fullPath, Slash) \/ cleanPath = <<>>)
                   /\ StatErr(files, indexPath) = ""
                THEN ServeFileOrIndex(request, files, indexPath)
                ELSE Ok(HTTP404NotFound, <<>>)
            ELSE Fail("failed to stat file", <<>>)
        ELSE ServeFileOrIndex(request, files, fullPath)

---------------------------------------------------------------------------
(* Middlewares (middleware.go) *)

Event(who, what) == [who |-> who, what |-> what]

\* strings.Contains(acceptEncoding, "gzip"), over the values the model sends
ContainsGzip(acceptEncoding) == acceptEncoding \in {"gzip", "gzip, deflate"}

\* shouldNotCompress: the content types (none of the model's carries a
\* parameter after these) that contain an entry of the noCompress list
shouldNotCompress(contentType) ==
    contentType \in {"image/jpeg", "image/png", "image/gif", "image/webp",
                     "video/mp4", "audio/mpeg", "application/zip",
                     "application/gzip", "application/x-gzip",
                     "application/x-compress", "application/x-compressed"}

\* compress/gzip: the encoding of b, with the length of its 18 bytes of
\* framing and a deflate stream taken as half the input; the stream holds
\* the content and the trailer its length (isize)
GzipBytes(b) ==
    [id |-> b.id, len |-> 18 + (b.len \div 2), enc |-> "gzip", isize |-> b.len]

\* gzip.NewReader and io.ReadAll on b: the content of a gzip stream, and
\* gzip.ErrHeader (no bytes) for anything else
GunzipBytes(b) ==
    IF b.enc = "gzip" THEN [id |-> b.id, len |-> b.isize, enc |-> "raw"]
    ELSE [id |-> <<>>, len |-> 0, enc |-> "invalid header"]

\* the goroutine panics: nothing is returned
Panic(what, log) == [resp |-> NilResponse, err |-> "panic: " \o what, log |-> log]

\* mutant of BaseMiddleware: the defaults replace what the handler set
Mutant_BaseMiddleware_Overwrites(request, inner) ==
    LET response == inner.resp
        log == <<Event("Base", "enter")>> \o inner.log \o <<Event("Base", "return")>>
        made == IF response.Headers = NilMap THEN << >> ELSE response.Headers
        filled == [k \in (DOMAIN made) \cup (DOMAIN DefaultResponseHeaders) |->
                      IF k \in DOMAIN DefaultResponseHeaders
                      THEN DefaultResponseHeaders[k]
                      ELSE made[k]]
        protocol == IF response.Protocol = ""
                    THEN IF request.Protocol # "" THEN request.Protocol ELSE "HTTP/1.1"
                    ELSE response.Protocol
        headers == IF "Content-Length" \in DOMAIN filled
                   THEN filled
                   ELSE Set(filled, "Content-Length", ToString(response.Body.len))
    IN  IF inner.err # "" THEN Fail(inner.err, log)
        ELSE Ok([response EXCEPT !.Headers = headers, !.Protocol = protocol], log)

\* BaseMiddleware, given what next(request) returned
BaseMiddleware(request, inner) ==
    LET response == inner.resp
        log == <<Event("Base", "enter")>> \o inner.log \o <<Event("Base", "return")>>
        made == IF response.Headers = NilMap THEN << >> ELSE response.Headers
        filled == [k \in (DOMAIN made) \cup (DOMAIN DefaultResponseHeaders) |->
                      IF k \in DOMAIN made
                      THEN made[k]
                      ELSE DefaultResponseHeaders[k]]
        protocol == IF response.Protocol = ""
                    THEN IF request.Protocol # "" THEN request.Protocol ELSE "HTTP/1.1"
                    ELSE response.Protocol
        headers == IF "Content-Length" \in DOMAIN filled
                   THEN filled
                   ELSE Set(filled, "Content-Length", ToString(response.Body.len))
    IN  IF inner.err # "" THEN Fail(inner.err, log)
        ELSE Ok([response EXCEPT !.Headers = headers, !.Protocol = protocol], log)

\* LoggingMiddleware, given what next(request) returned
LoggingMiddleware(request, inner) ==
    [inner EXCEPT !.log =
        <<Event("Logging", "request")>> \o inner.log \o
        <<Event("Logging", IF inner.err # "" THEN "request failed" ELSE "response")>>]

\* mutant of GzipMiddleware: compressing fails instead of succeeding
Mutant_GzipMiddleware_Fails(request, inner) ==
    LET response == inner.resp
        log == <<Event("Gzip", "enter")>> \o inner.log \o <<Event("Gzip", "return")>>
    IN  IF ~ContainsGzip(Get(request.Headers, "Accept-Encoding")) THEN [inner EXCEPT !.log = log]
        ELSE IF inner.err # "" THEN [inner EXCEPT !.log = log]
        ELSE IF response.Body.len < 1024 THEN [inner EXCEPT !.log = log]
        ELSE Fail("failed to compress response", log)

\* mutant of GzipMiddleware: the Content-Length of the handler is kept
Mutant_GzipMiddleware_KeepsLength(request, inner) ==
    LET response == inner.resp
        log == <<Event("Gzip", "enter")>> \o inner.log \o <<Event("Gzip", "return")>>
        vary == Get(response.Headers, "Vary")
        body == GzipBytes(response.Body)
    IN  IF ~ContainsGzip(Get(request.Headers, "Accept-Encoding")) THEN [inner EXCEPT !.log = log]
        ELSE IF inner.err # "" THEN [inner EXCEPT !.log = log]
        ELSE IF Get(response.Headers, "Content-Encoding") # "" THEN [inner EXCEPT !.log = log]
        ELSE IF response.Body.len < 1024 THEN [inner EXCEPT !.log = log]
        ELSE IF shouldNotCompress(Get(response.Headers, "Content-Type"))
        THEN [inner EXCEPT !.log = log]
        ELSE IF response.Headers = NilMap
        THEN Panic("assignment to entry in nil map", log)
        ELSE Ok([response EXCEPT
                    !.Body = body,
                    !.Headers =
                        Set(Set(response.Headers,
                                "Content-Encoding", "gzip"),
                            "Vary", IF vary # "" THEN vary \o ", Accept-Encoding"
                                    ELSE "Accept-Encoding")],
                log)

\* GzipMiddleware, given what next(request) returned
GzipMiddleware(request, inner) ==
    LET response == inner.resp
        log == <<Event("Gzip", "enter")>> \o inner.log \o <<Event("Gzip", "return")>>
        vary == Get(response.Headers, "Vary")
        body == GzipBytes(response.Body)
    IN  IF ~ContainsGzip(Get(request.Headers, "Accept-Encoding")) THEN [inner EXCEPT !.log = log]
        ELSE IF inner.err # "" THEN [inner EXCEPT !.log = log]
        ELSE IF Get(response.Headers, "Content-Encoding") # "" THEN [inner EXCEPT !.log = log]
        ELSE IF response.Body.len < 1024 THEN [inner EXCEPT !.log = log]
        ELSE IF shouldNotCompress(Get(response.Headers, "Content-Type"))
        THEN [inner EXCEPT !.log = log]
        ELSE IF response.Headers = NilMap
        THEN Panic("assignment to entry in nil map", log)
        ELSE Ok([response EXCEPT
                    !.Body = body,
                    !.Headers =
                        Set(Set(Set(response.Headers,
                                    "Content-Encoding", "gzip"),
                                "Content-Length", ToString(body.len)),
                            "Vary", IF vary # "" THEN vary \o ", Accept-Encoding"
                                    ELSE "Accept-Encoding")],
                log)

\* s.Middlewares as NewHTTPServer sets it
Middlewares == <<"Base", "Logging", "Gzip">>

ApplyMiddleware(name, request, inner) ==
    CASE name = "Base"    -> BaseMiddleware(request, inner)
      [] name = "Logging" -> LoggingMiddleware(request, inner)
      [] name = "Gzip"    -> GzipMiddleware(request, inner)

---------------------------------------------------------------------------
(* handleRequest (server.go) *)

\* the handler of the tests: status 200, its text as the body, empty headers
testHandler(h, request) ==
    Ok([StatusCode |-> 200, StatusText |-> "", Protocol |-> "",
        Headers |-> << >>, Body |-> Bytes(<<h>>, Len(h)), Reader |-> NilReader],
       <<>>)

\* handler.Handle()(request) for the handler bound to a route
CallHandler(h, request, files) ==
    LET r == IF h = "file" THEN FileHandler(request, files) ELSE testHandler(h, request)
    IN  [r EXCEPT !.log = <<Event(h, IF r.err # "" THEN "error" ELSE "response")>>]

\* mutant of Pipeline: the middlewares wrap in the opposite order, the last
\* of the list outermost
RECURSIVE Mutant_Pipeline_LastOutermost(_, _, _, _)
Mutant_Pipeline_LastOutermost(i, h, request, files) ==
    IF i > Len(Middlewares) THEN CallHandler(h, request, files)
    ELSE ApplyMiddleware(Middlewares[Len(Middlewares) + 1 - i], request,
                         Mutant_Pipeline_LastOutermost(i + 1, h, request, files))

\* the pipeline from middleware i inwards: Middlewares[i] wraps the rest
RECURSIVE Pipeline(_, _, _, _)
Pipeline(i, h, request, files) ==
    IF i > Len(Middlewares) THEN CallHandler(h, request, files)
    ELSE ApplyMiddleware(Middlewares[i], request, Pipeline(i + 1, h, request, files))

\* what handleRequest returns: the response, the events of the pipeline, how
\* often it closed the response's Reader, and what the routed handler did
Handled(response, log, closes, routed, handlerErr) ==
    [resp |-> response, log |-> log, closes |-> closes,
     routed |-> routed, handlerErr |-> handlerErr]

\* HTTPServer.handleRequest, once the route m is found: r is what the
\* pipeline returned, h what the routed handler returned inside it
handleRouted(request, r, h) ==
    IF r.err # "" THEN Handled(HTTP500InternalServerError, r.log, 0, TRUE, h.err)
    ELSE IF request.Method = "HEAD"
    THEN Handled([r.resp EXCEPT !.Body = NilBody, !.Reader = NilReader],
                 r.log, IF r.resp.Reader.set THEN 1 ELSE 0, TRUE, h.err)
    ELSE Handled(r.resp, r.log, 0, TRUE, h.err)

handleMatched(request, m, files) ==
    IF ~m.found THEN Handled(HTTP404NotFound, <<>>, 0, FALSE, "")
    ELSE handleRouted(request, Pipeline(1, m.handler, request, files),
                      CallHandler(m.handler, request, files))

\* mutant of handleRequest: the route is looked up before the method is checked
Mutant_handleRequest_RouteFirst(request, hs, ps, files) ==
    IF ~Match(hs, ps, request.Path).found
    THEN Handled(HTTP404NotFound, <<>>, 0, FALSE, "")
    ELSE IF request.Method # "GET" /\ request.Method # "HEAD"
    THEN Handled(HTTP405MethodNotAllowed, <<>>, 0, FALSE, "")
    ELSE handleMatched(request, Match(hs, ps, request.Path), files)

\* HTTPServer.handleRequest
handleRequest(request, hs, ps, files) ==
    IF request.Method # "GET" /\ request.Method # "HEAD"
    THEN Handled(HTTP405MethodNotAllowed, <<>>, 0, FALSE, "")
    ELSE handleMatched(request, Match(hs, ps, request.Path), files)

---------------------------------------------------------------------------
(* One request against a server: handleRequest for each method, and the   *)
(* file handler called directly as the tests call it                       *)

\* "get" is not GET: methods are compared as written
Methods == {"GET", "HEAD", "POST", "get"}

\* "/a.txt" "/b.css" "/c.png" "/d" "/e/" "/" "" "/s.txt" "/zz" "/t"
\* "/a.txt?q" "/a.txt/x" "//a.txt" "/%zz"
\* "/../x" "/%2e%2e/x" "/%2e%2e%2fx" "../x" "../wx/a.txt"
RequestPaths ==
    { <<"/", "a", ".txt">>,
      <<"/", "b", ".css">>,
      <<"/", "c", ".png">>,
      <<"/", "d">>,
      <<"/", "e", "/">>,
      <<"/", "p">>,
      <<"/">>,
      <<>>,
      <<"/", "s", ".txt">>,
      <<"/", "z", "z">>,
      <<"/", "t">>,
      <<"/", "a", ".txt", "?", "q">>,
      <<"/", "a", ".txt", "/", "x">>,
      <<"/", "/", "a", ".txt">>,
      <<"/", "%zz">>,
      <<"/", ".", ".", "/", "x">>,
      <<"/", "%2e", "%2e", "/", "x">>,
      <<"/", "%2e", "%2e", "%2f", "x">>,
      <<".", ".", "/", "x">>,
      <<".", ".", "/", "w", "x", "/", "a", ".txt">> }

Protocols == {"HTTP/1.1", "HTTP/1.0"}

\* the request header maps: no Accept-Encoding, gzip, another encoding
RequestHeaders ==
    { << >>, [k \in {"Accept-Encoding"} |-> "gzip"], [k \in {"Accept-Encoding"} |-> "br"] }

DefaultRoute == <<"^", "/", ".", "*", "$">>
TestRoute == <<"/", "t">>

WithMethod(r, m) ==
    [Method |-> m, Path |-> r.Path, Protocol |-> r.Protocol, Headers |-> r.Headers]

\* NewHTTPServer: the router holds the file handler for every rooted path;
\* a test may add an exact route for its own handler
RequestInit ==
    /\ NoServer
    /\ calls = << >> /\ matchPath = NoPath /\ matchResult = NotFound /\ matchAt = 0 /\ mu = << >> /\ gs = << >>
    /\ \E extra \in BOOLEAN :
          /\ handlers = IF extra THEN AddRouteHandlers(<< >>, TestRoute, "h1") ELSE << >>
          /\ patterns = AddRoutePatterns(<< >>, DefaultRoute, "file")
    /\ fs \in FileSystems
    /\ req \in [Path : RequestPaths, Protocol : Protocols, Headers : RequestHeaders]
    /\ served = << >>
    /\ direct = << >>
    /\ handled = << >> /\ wrapped = << >>
    /\ stream = << >> /\ parsed = << >> /\ again = << >> /\ writes = << >>
    /\ heap = << >> /\ built = << >>

\* s.handleRequest(req) with method m
Serve(m) ==
    /\ m \notin DOMAIN served
    /\ served' = (m :> handleRequest(WithMethod(req, m), handlers, patterns, fs)) @@ served
    /\ UNCHANGED <<routerVars, fs, req, direct, again, handled, wrapped, stream,
                   parsed, writes, heap, built, serverVars>>

\* handler.Handle()(req) on the file handler itself
CallFileHandler ==
    /\ direct = << >>
    /\ direct' = <<FileHandler(WithMethod(req, "GET"), fs)>>
    /\ UNCHANGED <<routerVars, fs, req, served, again, handled, wrapped, stream,
                   parsed, writes, heap, built, serverVars>>

\* the files somebody may rewrite while the server runs
Rewritable == { <<"/", "w", "/", "a", ".txt">>, <<"/", "w", "/", "c", ".png">> }

\* somebody rewrites a file of the served directory, once, after the first
\* GET was answered and before the second: it grows by a byte
Rewrite(p) ==
    /\ "GET" \in DOMAIN served
    /\ again = << >>
    /\ \A q \in DOMAIN fs : fs[q].mtime = 1
    /\ fs' = [fs EXCEPT ![p].size = @ + 1, ![p].mtime = 2]
    /\ UNCHANGED <<routerVars, req, served, direct, again, handled, wrapped, stream,
                   parsed, writes, heap, built, serverVars>>

\* mutant of ServeAgain: serving the file leaves a mark on it
Mutant_ServeAgain_Marks ==
    /\ "GET" \in DOMAIN served
    /\ again = << >>
    /\ again' = <<handleRequest(WithMethod(req, "GET"), handlers, patterns,
                                [p \in DOMAIN fs |->
                                    IF p \in Rewritable
                                    THEN [fs[p] EXCEPT !.size = @ + 1]
                                    ELSE fs[p]])>>
    /\ UNCHANGED <<routerVars, fs, req, served, direct, handled, wrapped, stream,
                   parsed, writes, heap, built, serverVars>>

\* s.handleRequest(req) for a second GET of the same request, on the same
\* connection or on another: handleRequest takes the request alone
ServeAgain ==
    /\ "GET" \in DOMAIN served
    /\ again = << >>
    /\ again' = <<handleRequest(WithMethod(req, "GET"), handlers, patterns, fs)>>
    /\ UNCHANGED <<routerVars, fs, req, served, direct, handled, wrapped, stream,
                   parsed, writes, heap, built, serverVars>>

RequestNext ==
    \/ \E m \in Methods : Serve(m)
    \/ CallFileHandler
    \/ \E p \in Rewritable : Rewrite(p)
    \/ ServeAgain

SpecRequest == RequestInit /\ [][RequestNext]_vars

---------------------------------------------------------------------------
(* Claims about handleRequest and the file handler *)

IsRouted == Match(handlers, patterns, req.Path).found

\* C7: handleRequest answers every method other than GET and HEAD with 405
\* and Allow: GET, HEAD, whatever the path and whether or not a route
\* matches it, and runs no handler and no middleware for it.
C7_MethodNotAllowed ==
    \A m \in DOMAIN served :
        m \notin {"GET", "HEAD"} =>
            /\ served[m].resp.StatusCode = 405
            /\ Get(served[m].resp.Headers, "Allow") = "GET, HEAD"
            /\ served[m].log = <<>>
            /\ ~served[m].routed

\* C7 witness: a POST to a routed path was answered, and so was a GET of
\* the same path, which did run the handler.
C7_Witness ==
    /\ {"POST", "GET"} \subseteq DOMAIN served
    /\ IsRouted
    /\ served["POST"].resp.StatusCode = 405
    /\ served["GET"].routed

\* C8: a GET or HEAD request whose path matches a route and whose handler
\* returns a response without error never gets a 5xx status from
\* handleRequest and its middleware pipeline.
C8_No5xxWithoutHandlerError ==
    \A m \in (DOMAIN served) \cap {"GET", "HEAD"} :
        (served[m].routed /\ served[m].handlerErr = "") =>
            served[m].resp.StatusCode < 500

\* C8 witness: a routed GET whose handler succeeded and whose body the
\* compression middleware replaced.
C8_Witness ==
    /\ "GET" \in DOMAIN served
    /\ served["GET"].routed
    /\ served["GET"].handlerErr = ""
    /\ served["GET"].resp.StatusCode = 200
    /\ served["GET"].resp.Body.enc = "gzip"

\* C9: for every path and server state, HEAD gets the status and headers of
\* GET, and a response without in-memory bytes and without a stream.
C9_HeadGetParity ==
    ({"GET", "HEAD"} \subseteq DOMAIN served) =>
        /\ served["HEAD"].resp.StatusCode = served["GET"].resp.StatusCode
        /\ served["HEAD"].resp.Headers = served["GET"].resp.Headers
        /\ served["HEAD"].resp.Body = NilBody
        /\ ~served["HEAD"].resp.Reader.set

\* a file's content was returned: in memory or as a stream
ServedFile(r) == r.err = "" /\ r.resp.StatusCode = 200
ServedPath(r) == IF r.resp.Reader.set THEN r.resp.Reader.file ELSE r.resp.Body.id

\* p lies inside the root directory
InsideRoot(p) == p = FileDirectory \/ HasPrefix(p, FileDirectory \o Slash)

\* C10: the file handler returns file content only for a file inside the
\* root, and answers every path that resolves outside the root with 404 and
\* no error.
C10_TraversalContained ==
    direct # << >> =>
        /\ ServedFile(direct[1]) => InsideRoot(ServedPath(direct[1]))
        /\ (~URLParseFails(req.Path) /\ ~InsideRoot(FullPath(WithMethod(req, "GET")))) =>
              (direct[1].err = "" /\ direct[1].resp.StatusCode = 404)

---------------------------------------------------------------------------
(* A running server: ListenAndServe, the accept goroutine, Shutdown and   *)
(* one handleConnection goroutine per accepted connection (server.go)      *)

\* what a peer writes on a connection: the request line split at its
\* spaces, and the header lines as a map
Wire(parts, headers) == [parts |-> parts, headers |-> headers]

WirePath == <<"/", "a", ".txt">>

\* a file the server may not read: the file handler fails on it
WireDenied == <<"/", "s", ".txt">>

WireRequests ==
    { Wire(<<"GET", WirePath, "HTTP/1.1">>, << >>),
      Wire(<<"GET", WirePath, "HTTP/1.1">>, [k \in {"Connection"} |-> "Close"]),
      Wire(<<"GET", WireDenied, "HTTP/1.1">>, << >>),
      Wire(<<"GET", WirePath>>, << >>),
      Wire(<<"GET", WirePath, "HTTP/2.0">>, << >>),
      Wire(<<"GET", WirePath, "HTTP/1.1">>, [k \in {"Content-Length"} |-> "abc"]) }

\* strconv.Atoi on the Content-Length texts a peer of the model sends
Atoi(text) ==
    CASE text = "0"  -> [err |-> FALSE, n |-> 0]
      [] text = "-1" -> [err |-> FALSE, n |-> 0 - 1]
      [] OTHER       -> [err |-> TRUE, n |-> 0]

\* strings.ToLower on the Connection values a peer of the model sends
ToLower(text) == IF text = "Close" THEN "close" ELSE text

Parsed(request, err) == [req |-> request, err |-> err]

\* HTTPServer.parseRequest on a request that arrived whole; the fields of
\* Request the struct literal leaves out keep their zero value
parseRequest(msg) ==
    IF Len(msg.parts) # 3 THEN Parsed(<< >>, "invalid request line")
    ELSE IF msg.parts[3] # "HTTP/1.1" /\ msg.parts[3] # "HTTP/1.0"
    THEN Parsed(<< >>, "unsupported protocol")
    ELSE IF "Content-Length" \in DOMAIN msg.headers
            /\ (Atoi(msg.headers["Content-Length"]).err
                \/ Atoi(msg.headers["Content-Length"]).n < 0)
    THEN Parsed(<< >>, "invalid content-length")
    ELSE Parsed([Method |-> msg.parts[1], Path |-> msg.parts[2],
                 Protocol |-> msg.parts[3], Headers |-> msg.headers,
                 RemoteAddr |-> ""], "")

\* isConnectionClosedError, on the errors of the model
isConnectionClosedError(err) ==
    err \in {"use of closed network connection", "connection reset by peer",
             "broken pipe", "EOF"}

\* a connection nobody has opened yet
NoConn ==
    [st |-> "none",        \* "none", "queued" (in the backlog), "accepted"
     peerClosed |-> FALSE, \* the peer closed its side
     sent |-> << >>,       \* everything the peer wrote, in order
     early |-> FALSE,      \* history: the first request was written on the
                           \*   accepted connection before any shutdown trigger
     hpc |-> "none",       \* handleConnection: "none", "top", "parse",
                           \*   "write", "body", "done"
     nread |-> 0,          \* how many requests parseRequest has consumed
     cur |-> << >>,        \* the request being answered
     out |-> << >>,        \* the status of every response written whole and
                           \*   flushed, in order
     part |-> "",          \* what is on the wire of a response in progress:
                           \*   "" or "head" (status line and headers)
     deadline |-> FALSE,   \* conn.SetDeadline was called: reads and writes
                           \*   fail once 30 seconds have passed since
     ret |-> "",           \* which return of handleConnection was taken
     err |-> ""]           \* the error it returned on, if any

NoShutdown == [pc |-> "idle", done |-> FALSE, expired |-> FALSE, result |-> ""]

\* the derived context of ListenAndServe (signal.NotifyContext)
NotifyDone == ctxDone \/ sigDone

\* some shutdown trigger has happened
ShutdownInvoked == \E i \in DOMAIN sd : sd[i].pc # "idle"
Triggered == ctxDone \/ sigDone \/ ShutdownInvoked


\* NewHTTPServer, before ListenAndServe is called, with the peers there will
\* be and the number of requests they will write
ServerStart(peers, requests, callers, refusals) ==
    /\ calls = << >> /\ matchPath = NoPath /\ matchResult = NotFound /\ matchAt = 0 /\ mu = << >> /\ gs = << >>
    /\ handlers = << >>
    /\ patterns = AddRoutePatterns(<< >>, DefaultRoute, "file")
    /\ fs = FSIndex /\ req = << >> /\ served = << >> /\ direct = << >>
    /\ handled = << >> /\ wrapped = << >>
    /\ stream = << >> /\ parsed = << >> /\ again = << >> /\ writes = << >>
    /\ heap = << >> /\ built = << >>
    /\ ctxDone = FALSE /\ sigDone = FALSE
    /\ listener = "nil" /\ shutdown = FALSE /\ wg = 0
    /\ connErrors = 0 /\ acceptErrs = refusals
    /\ quota = requests
    /\ las = [pc |-> "init", result |-> ""]
    /\ acceptor = [pc |-> "none", conn |-> 0]
    /\ sd = [i \in callers |-> NoShutdown]
    /\ conns = [c \in 1..peers |-> NoConn]

\* several peers and MaxRequests requests in all; the application may call
\* Shutdown itself, and Accept may fail MaxAcceptErrors times
ServerInit == ServerStart(MaxConns, MaxRequests, {"las", "ext"}, MaxAcceptErrors)

\* one peer that writes up to MaxExchanges requests on its connection
ConnInit == ServerStart(1, MaxExchanges, {"las", "ext"}, MaxAcceptErrors)

\* accept errors in the run that fills the error channel: one is received by
\* ListenAndServe, ChanCap stay queued, the next one waits in the send
MaxRefusals == ChanCap + 2

\* one peer, one request, no direct Shutdown call, and an Accept that fails
\* often enough to fill the error channel
RefuseInit == ServerStart(1, MaxRequests, {"las"}, MaxRefusals)

\* Conns of this run
Conns == DOMAIN conns

\* ---- the environment ----

\* the caller cancels the context it gave to ListenAndServe
CancelContext ==
    /\ ~ctxDone
    /\ ctxDone' = TRUE
    /\ UNCHANGED <<routerVars, requestVars, quota, sigDone, listener,
                   shutdown, wg, connErrors, acceptErrs, las, acceptor, sd,
                   conns>>

\* SIGINT or SIGTERM arrives while ListenAndServe waits in its select with
\* the signal handler installed (later the derived context is not read again,
\* and on a cancelled context the signal changes nothing)
Signal ==
    /\ las.pc = "select"
    /\ ~NotifyDone
    /\ sigDone' = TRUE
    /\ UNCHANGED <<routerVars, requestVars, quota, ctxDone, listener,
                   shutdown, wg, connErrors, acceptErrs, las, acceptor, sd,
                   conns>>

\* a peer connects: the connection waits in the listener's backlog
\* (connections are numbered in the order in which they are made)
Connect(c) ==
    /\ listener = "open"
    /\ conns[c].st = "none"
    /\ c > 1 => conns[c - 1].st # "none"
    /\ conns' = [conns EXCEPT ![c].st = "queued"]
    /\ UNCHANGED <<routerVars, requestVars, quota, ctxDone, sigDone,
                   listener, shutdown, wg, connErrors, acceptErrs, las,
                   acceptor, sd>>

\* a peer writes one whole request (what it writes before Accept returns
\* its connection is read as if written right after)
Send(c, msg) ==
    /\ conns[c].st = "accepted"
    /\ ~conns[c].peerClosed
    /\ quota > 0
    /\ quota' = quota - 1
    /\ conns' = [conns EXCEPT
                    ![c].sent = Append(@, msg),
                    ![c].early = IF conns[c].sent = << >> THEN ~Triggered ELSE @]
    /\ UNCHANGED <<routerVars, requestVars, ctxDone, sigDone, listener,
                   shutdown, wg, connErrors, acceptErrs, las, acceptor, sd>>

\* a peer closes its side of the connection
PeerClose(c) ==
    /\ conns[c].st = "accepted"
    /\ ~conns[c].peerClosed
    /\ conns' = [conns EXCEPT ![c].peerClosed = TRUE]
    /\ UNCHANGED <<routerVars, requestVars, quota, ctxDone, sigDone,
                   listener, shutdown, wg, connErrors, acceptErrs, las,
                   acceptor, sd>>

\* the context given to a Shutdown call expires: for the call ListenAndServe
\* makes, 30 seconds after it was made
GraceExpires(i) ==
    /\ sd[i].pc = "wait"
    /\ ~sd[i].expired
    /\ sd' = [sd EXCEPT ![i].expired = TRUE]
    /\ UNCHANGED <<routerVars, requestVars, quota, ctxDone, sigDone,
                   listener, shutdown, wg, connErrors, acceptErrs, las,
                   acceptor, conns>>

\* ---- ListenAndServe ----

\* ListenAndServe up to its select: stores the context, listens (the address
\* can be bound), starts the accept goroutine
ListenAndServe ==
    /\ las.pc = "init"
    /\ listener' = "open"
    /\ acceptor' = [pc |-> "accept", conn |-> 0]
    /\ las' = [las EXCEPT !.pc = "select"]
    /\ UNCHANGED <<routerVars, requestVars, quota, ctxDone, sigDone,
                   shutdown, wg, connErrors, acceptErrs, sd, conns>>

\* the select of ListenAndServe takes <-ctx.Done() and calls Shutdown
SelectDone ==
    /\ las.pc = "select"
    /\ NotifyDone
    /\ las' = [las EXCEPT !.pc = "shutdown"]
    /\ UNCHANGED <<routerVars, requestVars, quota, ctxDone, sigDone,
                   listener, shutdown, wg, connErrors, acceptErrs, acceptor,
                   sd, conns>>

\* the select of ListenAndServe takes an error from connErrors and returns it
SelectError ==
    /\ las.pc = "select"
    /\ connErrors > 0
    /\ connErrors' = connErrors - 1
    /\ las' = [pc |-> "returned", result |-> "failed to accept connection"]
    /\ UNCHANGED <<routerVars, requestVars, quota, ctxDone, sigDone,
                   listener, shutdown, wg, acceptErrs, acceptor, sd, conns>>

\* ---- the accept goroutine ----

\* listener.Accept() returns a connection of the backlog
Accept(c) ==
    /\ acceptor.pc = "accept"
    /\ listener = "open"
    /\ conns[c].st = "queued"
    /\ conns' = [conns EXCEPT ![c].st = "accepted"]
    /\ acceptor' = [pc |-> "add", conn |-> c]
    /\ UNCHANGED <<routerVars, requestVars, quota, ctxDone, sigDone,
                   listener, shutdown, wg, connErrors, acceptErrs, las, sd>>

\* listener.Accept() returns an error: always on a closed listener, and on an
\* open one when the system refuses (out of descriptors).  The goroutine
\* returns if its context is done, and otherwise sends the error on the
\* channel and loops.  The send is a plain blocking send: with the channel
\* full the goroutine waits in it ("send") until a receive makes room.
AcceptError ==
    /\ IF acceptor.pc = "send"
       THEN /\ connErrors < ChanCap
            /\ connErrors' = connErrors + 1
            /\ acceptor' = [acceptor EXCEPT !.pc = "accept"]
            /\ UNCHANGED acceptErrs
       ELSE /\ acceptor.pc = "accept"
            /\ listener = "closed" \/ (listener = "open" /\ acceptErrs > 0)
            /\ IF NotifyDone
               THEN /\ acceptor' = [acceptor EXCEPT !.pc = "returned"]
                    /\ UNCHANGED <<connErrors, acceptErrs>>
               ELSE /\ acceptErrs > 0
                    /\ acceptErrs' = acceptErrs - 1
                    /\ IF connErrors < ChanCap
                       THEN /\ connErrors' = connErrors + 1
                            /\ UNCHANGED acceptor
                       ELSE /\ acceptor' = [acceptor EXCEPT !.pc = "send"]
                            /\ UNCHANGED connErrors
    /\ UNCHANGED <<routerVars, requestVars, quota, ctxDone, sigDone,
                   listener, shutdown, wg, las, sd, conns>>

\* s.wg.Add(1)
WgAdd ==
    /\ acceptor.pc = "add"
    /\ wg' = wg + 1
    /\ acceptor' = [acceptor EXCEPT !.pc = "go"]
    /\ UNCHANGED <<routerVars, requestVars, quota, ctxDone, sigDone,
                   listener, shutdown, connErrors, acceptErrs, las, sd,
                   conns>>

\* go func(c net.Conn) { defer s.wg.Done(); s.handleConnection(c) }(conn)
GoHandle ==
    /\ acceptor.pc = "go"
    /\ conns' = [conns EXCEPT ![acceptor.conn].hpc = "top"]
    /\ acceptor' = [pc |-> "accept", conn |-> 0]
    /\ UNCHANGED <<routerVars, requestVars, quota, ctxDone, sigDone,
                   listener, shutdown, wg, connErrors, acceptErrs, las, sd>>

\* ---- Shutdown, called by ListenAndServe ("las") or by the application ----
\* ---- on a listening server ("ext")                                    ----

Returned(call, result) ==
    [pc |-> "returned", done |-> FALSE, expired |-> FALSE, result |-> result]

\* ListenAndServe returns what its Shutdown call returns
LasAfter(i, result) ==
    IF i = "las" THEN [pc |-> "returned", result |-> result] ELSE las

\* Shutdown up to its select: sets s.shutdown, closes the listener (closing
\* a closed listener is an error, returned at once), starts the goroutine
\* that waits for s.wg
ShutdownClose(i) ==
    /\ sd[i].pc = "idle"
    /\ IF i = "las" THEN las.pc = "shutdown" ELSE listener # "nil"
    /\ shutdown' = TRUE
    /\ IF listener = "closed"
       THEN /\ sd' = [sd EXCEPT ![i] = Returned(@, "failed to close listener")]
            /\ las' = LasAfter(i, "failed to close listener")
            /\ UNCHANGED listener
       ELSE /\ sd' = [sd EXCEPT ![i].pc = "wait"]
            /\ listener' = "closed"
            /\ UNCHANGED las
    /\ UNCHANGED <<routerVars, requestVars, quota, ctxDone, sigDone, wg,
                   connErrors, acceptErrs, acceptor, conns>>

\* the goroutine of Shutdown: s.wg.Wait() returns, close(done)
WaitDone(i) ==
    /\ sd[i].pc = "wait"
    /\ ~sd[i].done
    /\ wg = 0
    /\ sd' = [sd EXCEPT ![i].done = TRUE]
    /\ UNCHANGED <<routerVars, requestVars, quota, ctxDone, sigDone,
                   listener, shutdown, wg, connErrors, acceptErrs, las,
                   acceptor, conns>>

\* the select of Shutdown: nil on <-done, ctx.Err() on <-ctx.Done(), either
\* when both are ready
ShutdownReturn(i) ==
    /\ sd[i].pc = "wait"
    /\ \E result \in {"nil", "context deadline exceeded"} :
          /\ IF result = "nil" THEN sd[i].done ELSE sd[i].expired
          /\ sd' = [sd EXCEPT ![i] = Returned(@, result)]
          /\ las' = LasAfter(i, result)
    /\ UNCHANGED <<routerVars, requestVars, quota, ctxDone, sigDone,
                   listener, shutdown, wg, connErrors, acceptErrs, acceptor,
                   conns>>

\* ---- handleConnection ----

\* handleConnection returns: the deferred conn.Close() and s.wg.Done() run
Return(conn, ret, err) == [conn EXCEPT !.hpc = "done", !.ret = ret, !.err = err]

\* the top of the loop: return if s.ctx is done
LoopTop(c) ==
    /\ conns[c].hpc = "top"
    /\ IF ctxDone
       THEN /\ conns' = [conns EXCEPT ![c] = Return(@, "ctx", "")]
            /\ wg' = wg - 1
       ELSE /\ conns' = [conns EXCEPT ![c].hpc = "parse"]
            /\ UNCHANGED wg
    /\ UNCHANGED <<routerVars, requestVars, quota, ctxDone, sigDone,
                   listener, shutdown, connErrors, acceptErrs, las, acceptor,
                   sd>>

\* what parseRequest returns on connection conn, once it can return: the
\* next request the peer wrote, or EOF when the peer closed without one
ReadNext(conn) ==
    IF conn.nread < Len(conn.sent) THEN parseRequest(conn.sent[conn.nread + 1])
    ELSE Parsed(<< >>, "EOF")

\* mutant of ParseStep: a parse error is also queued on connErrors, as
\* accept errors are
Mutant_ParseStep_Reported(c) ==
    /\ conns[c].hpc = "parse"
    /\ conns[c].nread < Len(conns[c].sent) \/ conns[c].peerClosed
    /\ IF ReadNext(conns[c]).err # ""
       THEN /\ conns' = [conns EXCEPT ![c] =
                            Return([@ EXCEPT !.nread =
                                       IF @ < Len(conns[c].sent) THEN @ + 1 ELSE @],
                                   "parse", ReadNext(conns[c]).err)]
            /\ wg' = wg - 1
            /\ connErrors' = IF connErrors < ChanCap THEN connErrors + 1 ELSE connErrors
       ELSE /\ conns' = [conns EXCEPT ![c].hpc = "write",
                                      ![c].nread = @ + 1,
                                      ![c].cur = ReadNext(conns[c]).req]
            /\ UNCHANGED <<wg, connErrors>>
    /\ UNCHANGED <<routerVars, requestVars, quota, ctxDone, sigDone,
                   listener, shutdown, acceptErrs, las, acceptor, sd>>

\* s.parseRequest(reader) returns, and on an error handleConnection returns
ParseStep(c) ==
    /\ conns[c].hpc = "parse"
    /\ conns[c].nread < Len(conns[c].sent) \/ conns[c].peerClosed
    /\ IF ReadNext(conns[c]).err # ""
       THEN /\ conns' = [conns EXCEPT ![c] =
                            Return([@ EXCEPT !.nread =
                                       IF @ < Len(conns[c].sent) THEN @ + 1 ELSE @],
                                   "parse", ReadNext(conns[c]).err)]
            /\ wg' = wg - 1
       ELSE /\ conns' = [conns EXCEPT ![c].hpc = "write",
                                      ![c].nread = @ + 1,
                                      ![c].cur = ReadNext(conns[c]).req]
            /\ UNCHANGED wg
    /\ UNCHANGED <<routerVars, requestVars, quota, ctxDone, sigDone,
                   listener, shutdown, connErrors, acceptErrs, las, acceptor,
                   sd>>

\* mutant of WantsClose: the value is compared as written
Mutant_WantsClose_CaseSensitive(request) == Get(request.Headers, "Connection") = "close"

\* the keep-alive test of handleConnection
WantsClose(request) == ToLower(Get(request.Headers, "Connection")) = "close"

\* s.handleRequest(req) and s.writeResponse(writer, resp) up to the flush of
\* the headers: the status line and the headers reach the wire, or a write
\* fails (possible once the peer has closed) and handleConnection returns
WriteHead(c) ==
    /\ conns[c].hpc = "write"
    /\ \E written \in BOOLEAN :
          /\ ~written => conns[c].peerClosed
          /\ conns' = [conns EXCEPT ![c] =
                IF written THEN [@ EXCEPT !.hpc = "body", !.part = "head"]
                ELSE Return(@, "write", "broken pipe")]
          /\ wg' = IF written THEN wg ELSE wg - 1
    /\ UNCHANGED <<routerVars, requestVars, quota, ctxDone, sigDone,
                   listener, shutdown, connErrors, acceptErrs, las, acceptor,
                   sd>>

\* mutant of Wrote: the last flush is left out, the body stays in the buffer
Mutant_Wrote_NoFlush(conn, status) == conn

\* writeResponse has written the body and flushed: the response is whole
Wrote(conn, status) == [conn EXCEPT !.out = Append(@, status), !.part = ""]

\* writeResponse from the body on, and the rest of the iteration: return on
\* a write error or on Connection: close, else arm the deadline and loop
RespondStep(c) ==
    /\ conns[c].hpc = "body"
    /\ \E written \in BOOLEAN :
          /\ ~written => conns[c].peerClosed
          /\ conns' = [conns EXCEPT ![c] =
                IF ~written THEN Return(@, "write", "broken pipe")
                ELSE IF WantsClose(conns[c].cur)
                THEN Return(Wrote(@,
                        handleRequest(conns[c].cur, handlers, patterns, fs).resp.StatusCode),
                        "close", "")
                ELSE [Wrote(@,
                        handleRequest(conns[c].cur, handlers, patterns, fs).resp.StatusCode)
                      EXCEPT !.hpc = "top", !.deadline = TRUE]]
          /\ wg' = IF ~written \/ WantsClose(conns[c].cur) THEN wg - 1 ELSE wg
    /\ UNCHANGED <<routerVars, requestVars, quota, ctxDone, sigDone,
                   listener, shutdown, connErrors, acceptErrs, las, acceptor,
                   sd>>

\* the deadline passes while parseRequest waits for bytes the peer does not
\* write: the read fails with a timeout and handleConnection returns
ReadTimeout(c) ==
    /\ conns[c].hpc = "parse"
    /\ conns[c].deadline
    /\ conns[c].nread = Len(conns[c].sent)
    /\ ~conns[c].peerClosed
    /\ conns' = [conns EXCEPT ![c] = Return(@, "parse", "i/o timeout")]
    /\ wg' = wg - 1
    /\ UNCHANGED <<routerVars, requestVars, quota, ctxDone, sigDone,
                   listener, shutdown, connErrors, acceptErrs, las, acceptor,
                   sd>>

ServerNext ==
    \/ CancelContext
    \/ Signal
    \/ \E c \in Conns : Connect(c)
    \/ \E c \in Conns, msg \in WireRequests : Send(c, msg)
    \/ \E c \in Conns : PeerClose(c)
    \/ \E i \in DOMAIN sd : GraceExpires(i)
    \/ ListenAndServe
    \/ SelectDone
    \/ SelectError
    \/ \E c \in Conns : Accept(c)
    \/ AcceptError
    \/ WgAdd
    \/ GoHandle
    \/ \E i \in DOMAIN sd : ShutdownClose(i)
    \/ \E i \in DOMAIN sd : WaitDone(i)
    \/ \E i \in DOMAIN sd : ShutdownReturn(i)
    \/ \E c \in Conns : LoopTop(c)
    \/ \E c \in Conns : ParseStep(c)
    \/ \E c \in Conns : ReadTimeout(c)
    \/ \E c \in Conns : WriteHead(c)
    \/ \E c \in Conns : RespondStep(c)

SpecServer == ServerInit /\ [][ServerNext]_vars

\* the same server with a single keep-alive connection
SpecConn == ConnInit /\ [][ServerNext]_vars
SpecRefuse == RefuseInit /\ [][ServerNext]_vars

---------------------------------------------------------------------------
(* Claims about the lifecycle of a running server *)

\* a Shutdown call or ListenAndServe returns in this step
ShutdownReturns(i) == sd[i].pc # "returned" /\ sd'[i].pc = "returned"
ListenAndServeReturns == las.pc # "returned" /\ las'.pc = "returned"

\* C1: if a connection was accepted and its request was sent before any
\* shutdown trigger (context cancellation, termination signal, Shutdown
\* call), the connection handler writes the complete response to that
\* request before it exits, in every interleaving of the trigger with the
\* handler's steps.  Stated for a well-formed request whose peer stays
\* connected, so that neither a parse error nor a write error is the reason.
C1_AcceptedRequestAnswered ==
    \A c \in Conns :
        ( /\ conns[c].hpc = "done"
          /\ conns[c].early
          /\ ~conns[c].peerClosed
          /\ parseRequest(conns[c].sent[1]).err = "" )
        => Len(conns[c].out) >= 1

\* C2: a Shutdown call returns nil when every in-flight handler has finished
\* within the grace period and the deadline-exceeded error when the grace
\* period expires while a handler is still running; ListenAndServe, once its
\* context is cancelled, returns the outcome of its Shutdown call.
C2_ShutdownOutcome ==
    [][ /\ \A i \in DOMAIN sd :
              ShutdownReturns(i) =>
                  /\ (wg = 0 /\ ~sd[i].expired) => sd'[i].result = "nil"
                  /\ (wg > 0 /\ sd[i].expired) =>
                         sd'[i].result = "context deadline exceeded"
        /\ (ListenAndServeReturns /\ ctxDone) =>
              /\ ShutdownReturns("las")
              /\ las'.result = sd'["las"].result
              /\ las'.result \in {"nil", "context deadline exceeded"}
      ]_vars

\* C3: once Shutdown has been invoked the listener is closed, and from then
\* on no further connection is accepted and no new connection handler is
\* started.
C3_NoAcceptAfterShutdown ==
    [][ ShutdownInvoked =>
            /\ listener = "closed"
            /\ \A c \in Conns :
                  /\ conns'[c].st = "accepted" => conns[c].st = "accepted"
                  /\ conns[c].hpc = "none" => conns'[c].hpc = "none"
      ]_vars

\* C6: when parsing a request fails for a reason other than a disconnection
\* of the peer, the connection handler writes a 400 response and then closes
\* the connection; when the failure is a disconnection it closes without
\* writing a response.
C6_ParseFailureAnswered ==
    \A c \in Conns :
        conns[c].ret = "parse" =>
            /\ Len(conns[c].out) = conns[c].nread
            /\ ~isConnectionClosedError(conns[c].err) =>
                  conns[c].out[conns[c].nread] = 400

---------------------------------------------------------------------------
(* More claims about handleRequest, the file handler and the middlewares *)

\* the request resolves to a file that exists inside the root and that the
\* server is not permitted to read
DeniedFile(request, files) ==
    /\ ~URLParseFails(request.Path)
    /\ InsideRoot(FullPath(request))
    /\ FullPath(request) \in DOMAIN files
    /\ files[FullPath(request)].kind = "file"
    /\ ~files[FullPath(request)].readable

\* C11: a request for a file that exists inside the root but cannot be read
\* because permission is denied is answered with 404, like a missing file,
\* never with 403 or another status that confirms the file exists.
C11_PermissionDeniedIs404 ==
    \A m \in (DOMAIN served) \cap {"GET", "HEAD"} :
        (served[m].routed /\ DeniedFile(WithMethod(req, m), fs)) =>
            served[m].resp.StatusCode = 404

---------------------------------------------------------------------------
(* Claims about the exchanges on one connection *)

\* the request asks for the connection to be closed after its response
AsksClose(msg) ==
    /\ "Connection" \in DOMAIN msg.headers
    /\ msg.headers["Connection"] \in {"close", "Close"}

\* in this step a response is written on connection c, a request is read
\* from it
Responds(c) == Len(conns'[c].out) = Len(conns[c].out) + 1
Reads(c) == conns'[c].nread = conns[c].nread + 1

\* C12: after writing the response to a request whose Connection header has
\* the value close the connection handler closes the connection and parses
\* no further request; after any other answered request it loops, and what
\* it parses next is the next request of the same connection.
C12_CloseOrKeepAlive ==
    [][ \A c \in Conns :
           /\ Responds(c) =>
                 IF AsksClose(conns[c].sent[conns[c].nread])
                 THEN conns'[c].hpc = "done"
                 ELSE conns'[c].hpc = "top"
           /\ conns[c].hpc = "done" =>
                 /\ conns'[c].hpc = "done"
                 /\ conns'[c].nread = conns[c].nread
                 /\ conns'[c].out = conns[c].out
           /\ Reads(c) =>
                 /\ conns[c].hpc = "parse"
                 /\ Len(conns[c].out) = conns[c].nread
                 /\ \A k \in 1..conns[c].nread : ~AsksClose(conns[c].sent[k])
      ]_vars

\* C12 witness: two requests were answered on one connection, the second
\* asked for close, and the handler has returned after it.
C12_Witness ==
    \E c \in Conns :
        /\ Len(conns[c].out) = 2
        /\ conns[c].nread = 2
        /\ ~AsksClose(conns[c].sent[1])
        /\ AsksClose(conns[c].sent[2])
        /\ conns[c].hpc = "done"
        /\ conns[c].ret = "close"

\* C13: on one connection the exchanges are strictly sequential: the
\* response to request i is written whole and flushed before request i+1
\* is parsed, and every response written is the response to the request
\* parsed last, so responses reach the wire in request order, one at a time.
C13_SequentialExchanges ==
    [][ \A c \in Conns :
           /\ Reads(c) =>
                 /\ conns[c].part = ""
                 /\ Len(conns[c].out) = conns[c].nread
           /\ (conns[c].part = "" /\ conns'[c].part = "head") =>
                 Len(conns[c].out) = conns[c].nread - 1
           /\ Responds(c) =>
                 /\ conns[c].part = "head"
                 /\ conns'[c].part = ""
                 /\ Len(conns'[c].out) = conns[c].nread
                 /\ SubSeq(conns'[c].out, 1, Len(conns[c].out)) = conns[c].out
      ]_vars

\* C13 witness: the first response of a connection is whole on the wire and
\* the head of the second is being written.
C13_Witness ==
    \E c \in Conns :
        /\ conns[c].nread = 2
        /\ Len(conns[c].out) = 1
        /\ conns[c].part = "head"
        /\ conns[c].hpc = "body"

\* the handler of connection c fails in this step: it returns on a parse
\* error or a write error, or it completes the 500 of a handler error
Fails(c) ==
    \/ /\ conns[c].hpc # "done"
       /\ conns'[c].hpc = "done"
       /\ conns'[c].ret \in {"parse", "write"}
    \/ /\ Responds(c)
       /\ conns'[c].out[Len(conns'[c].out)] = 500

---------------------------------------------------------------------------
(* Claims about the middlewares *)

\* who acted, in the order of the events of a pipeline run
Who(log) == [i \in 1..Len(log) |-> log[i].who]
Reverse(s) == [i \in 1..Len(s) |-> s[Len(s) + 1 - i]]

\* C15: handleRequest composes the configured middlewares [m1..mn] with the
\* first outermost: on every routed request the order of execution is
\* m1-pre, ..., mn-pre, the routed handler, mn-post, ..., m1-post.
C15_FirstMiddlewareOutermost ==
    \A m \in (DOMAIN served) \cap {"GET", "HEAD"} :
        served[m].routed =>
            Who(served[m].log) =
                Middlewares
                \o <<Match(handlers, patterns, req.Path).handler>>
                \o Reverse(Middlewares)

\* C15 witness: a GET was routed to the file handler through the three
\* middlewares of the server and came back with a response.
C15_Witness ==
    /\ "GET" \in DOMAIN served
    /\ served["GET"].routed
    /\ Match(handlers, patterns, req.Path).handler = "file"
    /\ Len(served["GET"].log) = 2 * Len(Middlewares) + 1
    /\ served["GET"].log[1] = Event("Base", "enter")
    /\ served["GET"].log[Len(served["GET"].log)] = Event("Base", "return")
    /\ served["GET"].resp.StatusCode = 200

---------------------------------------------------------------------------
(* Claims about accept errors *)

\* C16: once shutdown has been signaled (context cancelled, termination
\* signal received, or Shutdown called), the accept error produced by the
\* closed listener is not reported as a failure: it is not put on the error
\* channel, so ListenAndServe cannot return it.
C16_NoAcceptErrorAfterShutdown ==
    [][ (Triggered /\ listener = "closed") => connErrors' <= connErrors ]_vars

\* C17: an accept error that occurs while no shutdown has been signaled is
\* reported but does not stop the accept loop: after any number of such
\* errors the acceptor is not left waiting in the send of the error with
\* nobody receiving, so it still accepts the next connection.
AcceptorStopped == acceptor.pc = "send" /\ connErrors = ChanCap /\ las.pc # "select"
C17_AcceptLoopContinues == ~Triggered => ~AcceptorStopped

---------------------------------------------------------------------------
(* One middleware around a handler, as the tests call it                   *)
(* (middleware_test.go)                                                    *)

\* the content types a handler gives its response
ContentTypes ==
    {"text/plain", "image/png", "image/avif", "video/mp4", "application/zip",
     "application/x-7z-compressed"}

\* the body lengths around the compression threshold
BodySizes == {0, 13, 1023, 1024, 2000}

\* the headers a handler may set, with the values it gives them
HandlerValues ==
    [k \in {"Content-Type", "Content-Encoding", "Vary", "Content-Length", "Server"} |->
        CASE k = "Content-Type"     -> ContentTypes
          [] k = "Content-Encoding" -> {"br"}
          [] k = "Vary"             -> {"User-Agent"}
          [] k = "Content-Length"   -> {"5"}
          [] k = "Server"           -> {"custom-server"}]

\* the header maps of a handler's response: nil, or any of the headers set
HandlerHeaders ==
    {NilMap} \cup
    UNION { {h \in [ks -> UNION {HandlerValues[k] : k \in ks}] :
                \A k \in ks : h[k] \in HandlerValues[k]} :
            ks \in SUBSET DOMAIN HandlerValues }

\* what a handler returns: an error, a well-known error response, or a
\* response of its own
HandlerResults ==
    {Fail("handler error", <<>>), Ok(HTTP404NotFound, <<>>)} \cup
    { Ok([StatusCode |-> 200, StatusText |-> "OK", Protocol |-> p, Headers |-> h,
          Body |-> Bytes(<<"body">>, n), Reader |-> NilReader], <<>>) :
        p \in {"", "HTTP/1.0"}, h \in HandlerHeaders, n \in BodySizes }

\* the Accept-Encoding of the request: none, gzip alone or in a list, another
AcceptEncodings ==
    { << >> } \cup { [k \in {"Accept-Encoding"} |-> v] : v \in {"gzip", "gzip, deflate", "br"} }

\* the Origin of a request that has one
Origins ==
    { [k \in {"Origin"} |-> v] : v \in {"https://example.com", "https://evil.com"} }

\* the allow-lists given to CORSMiddleware
AllowLists ==
    { << >>, <<"*">>, <<"https://example.com">>,
      <<"https://test.com", "https://example.com">> }

\* CORSMiddleware(allowedOrigins), given what next(request) returned
CORSMiddleware(allowedOrigins, request, inner) ==
    LET origin == Get(request.Headers, "Origin")
        allowed == \E i \in DOMAIN allowedOrigins :
                       allowedOrigins[i] = "*" \/ allowedOrigins[i] = origin
        response == inner.resp
    IN  IF inner.err # "" THEN inner
        ELSE IF ~(allowed /\ origin # "") THEN inner
        ELSE IF response.Headers = NilMap
        THEN Panic("assignment to entry in nil map", inner.log)
        ELSE Ok([response EXCEPT !.Headers =
                    Set(Set(Set(Set(@,
                        "Access-Control-Allow-Origin", origin),
                        "Access-Control-Allow-Methods", "GET, HEAD, OPTIONS"),
                        "Access-Control-Allow-Headers", "Content-Type, Accept"),
                        "Access-Control-Max-Age", "86400")],
                inner.log)

MiddlewareInit ==
    /\ NoServer
    /\ handlers = << >> /\ patterns = << >> /\ calls = << >>
    /\ matchPath = NoPath /\ matchResult = NotFound /\ matchAt = 0 /\ mu = << >> /\ gs = << >>
    /\ fs = << >> /\ served = << >> /\ direct = << >>
    /\ req \in [Path : {TestRoute}, Protocol : {"HTTP/1.1", "HTTP/1.0", ""},
                 Headers : AcceptEncodings \cup Origins]
    /\ handled \in HandlerResults
    /\ wrapped = << >>
    /\ stream = << >> /\ parsed = << >> /\ again = << >> /\ writes = << >>
    /\ heap = << >> /\ built = << >>

\* middleware(next)(req), for one of the middlewares of the server
Wrap(name) ==
    /\ name \notin DOMAIN wrapped
    /\ wrapped' = (name :> ApplyMiddleware(name, WithMethod(req, "GET"), handled)) @@ wrapped
    /\ UNCHANGED <<routerVars, fs, req, served, direct, again, handled, stream,
                   parsed, writes, heap, built, serverVars>>

\* CORSMiddleware(allowedOrigins)(next)(req)
WrapCORS(allowedOrigins) ==
    /\ "CORS" \notin DOMAIN wrapped
    /\ wrapped' = ("CORS" :> [allowedOrigins |-> allowedOrigins,
                              result |-> CORSMiddleware(allowedOrigins,
                                                        WithMethod(req, "GET"), handled)])
                  @@ wrapped
    /\ UNCHANGED <<routerVars, fs, req, served, direct, again, handled, stream,
                   parsed, writes, heap, built, serverVars>>

MiddlewareNext ==
    \/ \E i \in DOMAIN Middlewares : Wrap(Middlewares[i])
    \/ \E allowedOrigins \in AllowLists : WrapCORS(allowedOrigins)

SpecMiddleware == MiddlewareInit /\ [][MiddlewareNext]_vars

---------------------------------------------------------------------------
(* Claims about GzipMiddleware and BaseMiddleware *)

DeclaresGzip == Get(req.Headers, "Accept-Encoding") \in {"gzip", "gzip, deflate"}

\* the families of already-compressed content: image, video, audio, archive
AlreadyCompressedFamily(contentType) ==
    contentType \in {"image/png", "image/avif", "video/mp4", "application/zip",
                     "application/x-7z-compressed"}

\* a skip condition holds for the request and the handler's response
SkipCondition ==
    \/ ~DeclaresGzip
    \/ handled.resp.Body.len < 1024
    \/ AlreadyCompressedFamily(Get(handled.resp.Headers, "Content-Type"))
    \/ Get(handled.resp.Headers, "Content-Encoding") # ""

\* C18: GzipMiddleware returns the inner handler's response with body and
\* headers unchanged whenever the request does not declare gzip, or the body
\* is shorter than 1024 bytes, or the Content-Type is an already-compressed
\* type (image, video, audio, archive), or a Content-Encoding is already set.
C18_SkipLeavesResponse ==
    ("Gzip" \in DOMAIN wrapped /\ handled.err = "" /\ SkipCondition) =>
        /\ wrapped["Gzip"].err = ""
        /\ wrapped["Gzip"].resp = handled.resp

\* C19: when no skip condition holds (gzip declared, body of at least 1024
\* bytes, compressible type, no Content-Encoding set), GzipMiddleware
\* replaces the body with bytes that decompress to the original body
\* exactly, sets Content-Encoding to gzip, sets Content-Length to the length
\* of the new body, and appends Accept-Encoding to an existing Vary value or
\* creates Vary with it.
C19_CompressedResponse ==
    ("Gzip" \in DOMAIN wrapped /\ handled.err = "" /\ ~SkipCondition) =>
        LET before == handled.resp
            after == wrapped["Gzip"].resp
        IN  /\ wrapped["Gzip"].err = ""
            /\ after.Body.enc = "gzip"
            /\ GunzipBytes(after.Body) = before.Body
            /\ Get(after.Headers, "Content-Encoding") = "gzip"
            /\ Get(after.Headers, "Content-Length") = ToString(after.Body.len)
            /\ Get(after.Headers, "Vary") =
                  IF Get(before.Headers, "Vary") # ""
                  THEN Get(before.Headers, "Vary") \o ", Accept-Encoding"
                  ELSE "Accept-Encoding"

\* the header map the handler returned, a nil map read as the empty one
HandledHeaders ==
    IF handled.resp.Headers = NilMap THEN << >> ELSE handled.resp.Headers

\* C20: after BaseMiddleware the response has a non-nil header map that
\* contains every default header; a header already set by the inner handler
\* keeps the inner handler's value; and Content-Length is set to the
\* in-memory body length only when the inner layers left it unset.
C20_BaseDefaults ==
    ("Base" \in DOMAIN wrapped /\ handled.err = "") =>
        LET after == wrapped["Base"].resp
        IN  /\ wrapped["Base"].err = ""
            /\ after.Headers # NilMap
            /\ DOMAIN after.Headers =
                  (DOMAIN HandledHeaders) \cup (DOMAIN DefaultResponseHeaders)
                      \cup {"Content-Length"}
            /\ \A k \in DOMAIN HandledHeaders : after.Headers[k] = HandledHeaders[k]
            /\ \A k \in (DOMAIN DefaultResponseHeaders) \ (DOMAIN HandledHeaders) :
                  after.Headers[k] = DefaultResponseHeaders[k]
            /\ "Content-Length" \notin DOMAIN HandledHeaders =>
                  after.Headers["Content-Length"] = ToString(handled.resp.Body.len)

\* C20 witness: the handler set Server and Content-Type but no
\* Content-Length on a 13-byte body; after BaseMiddleware both keep the
\* handler's values, the other defaults are filled in and Content-Length
\* is 13.
C20_Witness ==
    /\ "Base" \in DOMAIN wrapped
    /\ handled.err = ""
    /\ DOMAIN handled.resp.Headers = {"Server", "Content-Type"}
    /\ handled.resp.Headers["Content-Type"] = "application/zip"
    /\ handled.resp.Body.len = 13
    /\ wrapped["Base"].resp.Headers["Server"] = "custom-server"
    /\ wrapped["Base"].resp.Headers["Content-Type"] = "application/zip"
    /\ wrapped["Base"].resp.Headers["Cache-Control"] = "no-cache"
    /\ wrapped["Base"].resp.Headers["Content-Length"] = "13"

\* C21: after BaseMiddleware the response's protocol field equals the
\* request's protocol whenever the request's protocol is non-empty, and is
\* HTTP/1.1 otherwise, for every response the inner handler can return
\* (including the well-known error responses).
C21_ProtocolNormalized ==
    ("Base" \in DOMAIN wrapped /\ handled.err = "") =>
        wrapped["Base"].resp.Protocol =
            IF req.Protocol # "" THEN req.Protocol ELSE "HTTP/1.1"

---------------------------------------------------------------------------
(* The parser on a byte stream (server.go, parseRequest).  A stream is a   *)
(* sequence of one-byte strings.                                           *)

SP == <<" ">>
CRLF == <<"\r", "\n">>
LF == <<"\n">>
GET == <<"G", "E", "T">>
PathX == <<"/", "x">>
HTTP11 == <<"H", "T", "T", "P", "/", "1", ".", "1">>
HTTP10 == <<"H", "T", "T", "P", "/", "1", ".", "0">>
HTTP20 == <<"H", "T", "T", "P", "/", "2", ".", "0">>
ContentLength ==
    <<"C", "o", "n", "t", "e", "n", "t", "-", "L", "e", "n", "g", "t", "h">>

\* bufio.Reader.ReadString('\n') after pos bytes were consumed: the bytes
\* through the first newline, or what is left and io.EOF
ReadString(bytes, pos) ==
    LET i == IndexOf(From(bytes, pos + 1), "\n")
    IN  IF i = 0
        THEN [text |-> From(bytes, pos + 1), pos |-> Len(bytes), err |-> "EOF"]
        ELSE [text |-> SubSeq(bytes, pos + 1, pos + i), pos |-> pos + i, err |-> ""]

\* strings.TrimRight(s, cutset)
TrimRight(s, cutset) ==
    SubSeq(s, 1, Max({0} \cup {i \in 1..Len(s) : s[i] \notin cutset}))

\* strings.TrimSpace, for the white space of ASCII
TrimSpace(s) ==
    LET keep == {i \in 1..Len(s) : s[i] \notin {" ", "\t", "\n", "\r"}}
    IN  IF keep = {} THEN <<>> ELSE SubSeq(s, Min(keep), Max(keep))

\* strings.Split(s, " ")
RECURSIVE SplitSpace(_)
SplitSpace(s) ==
    IF " " \notin Units(s) THEN <<s>>
    ELSE <<CutBefore(s, " ")>> \o SplitSpace(From(s, IndexOf(s, " ") + 1))

Digit ==
    [d \in {"0", "1", "2", "3", "4", "5", "6", "7", "8", "9"} |->
        CASE d = "0" -> 0 [] d = "1" -> 1 [] d = "2" -> 2 [] d = "3" -> 3
          [] d = "4" -> 4 [] d = "5" -> 5 [] d = "6" -> 6 [] d = "7" -> 7
          [] d = "8" -> 8 [] d = "9" -> 9]

\* the number a sequence of decimal digits writes
RECURSIVE Decimal(_)
Decimal(ds) ==
    IF ds = <<>> THEN 0
    ELSE 10 * Decimal(SubSeq(ds, 1, Len(ds) - 1)) + Digit[ds[Len(ds)]]

\* strconv.Atoi: an optional sign and at least one decimal digit (the
\* numbers of the model are far from the range error)
strconvAtoi(text) ==
    LET signed == text # <<>> /\ text[1] \in {"+", "-"}
        ds == IF signed THEN Tail(text) ELSE text
    IN  IF ds = <<>> \/ \E i \in 1..Len(ds) : ds[i] \notin DOMAIN Digit
        THEN [err |-> TRUE, n |-> 0]
        ELSE [err |-> FALSE,
              n |-> IF text[1] = "-" THEN 0 - Decimal(ds) ELSE Decimal(ds)]

\* the header loop of parseRequest: lines up to the empty one, a line
\* without a colon skipped, key and value trimmed, the last value of a key
\* kept
RECURSIVE readHeaders(_, _, _)
readHeaders(bytes, pos, headers) ==
    LET read == ReadString(bytes, pos)
        line == TrimRight(read.text, {"\r", "\n"})
        colonIdx == IndexOf(line, ":")
    IN  IF read.err # ""
        THEN [headers |-> headers, pos |-> read.pos, err |-> "failed to read header"]
        ELSE IF line = <<>>
        THEN [headers |-> headers, pos |-> read.pos, err |-> ""]
        ELSE IF colonIdx = 0 THEN readHeaders(bytes, read.pos, headers)
        ELSE readHeaders(bytes, read.pos,
                         Set(headers, TrimSpace(SubSeq(line, 1, colonIdx - 1)),
                             TrimSpace(From(line, colonIdx + 1))))

\* mutant of SupportedProtocol: any protocol token is accepted
Mutant_SupportedProtocol_Any(protocol) == TRUE

\* the protocol test of parseRequest
SupportedProtocol(protocol) == protocol = HTTP11 \/ protocol = HTTP10

\* mutant of ReadFull: a short read is returned as the body
Mutant_ReadFull_Short(bytes, pos, n) ==
    IF Len(bytes) - pos < n
    THEN [body |-> From(bytes, pos + 1), pos |-> Len(bytes), err |-> ""]
    ELSE [body |-> SubSeq(bytes, pos + 1, pos + n), pos |-> pos + n, err |-> ""]

\* io.ReadFull(reader, body) for a body of n bytes
ReadFull(bytes, pos, n) ==
    IF Len(bytes) - pos < n
    THEN [body |-> <<>>, pos |-> Len(bytes), err |-> "failed to read body"]
    ELSE [body |-> SubSeq(bytes, pos + 1, pos + n), pos |-> pos + n, err |-> ""]

\* what a parseRequest call returns, the position of the reader after it,
\* and the request line it read (history)
ParsedAt(request, err, pos, startLine) ==
    [req |-> request, err |-> err, pos |-> pos, startLine |-> startLine]

\* the Content-Length part of parseRequest, for the request read so far
readBody(bytes, hs, request, startLine) ==
    IF ContentLength \notin DOMAIN hs.headers
    THEN ParsedAt(request, "", hs.pos, startLine)
    ELSE LET cl == strconvAtoi(hs.headers[ContentLength])
             full == ReadFull(bytes, hs.pos, cl.n)
         IN  IF cl.err \/ cl.n < 0
             THEN ParsedAt(<< >>, "invalid content-length", hs.pos, startLine)
             ELSE IF cl.n = 0 THEN ParsedAt(request, "", hs.pos, startLine)
             ELSE IF full.err # ""
             THEN ParsedAt(<< >>, full.err, full.pos, startLine)
             ELSE ParsedAt([request EXCEPT !.Body = full.body], "", full.pos, startLine)

\* HTTPServer.parseRequest on a reader that has consumed pos bytes
parseRequestBytes(bytes, pos) ==
    LET first == ReadString(bytes, pos)
        startLine == TrimRight(first.text, {"\r", "\n"})
        parts == SplitSpace(startLine)
        hs == readHeaders(bytes, first.pos, << >>)
    IN  IF first.err # ""
        THEN ParsedAt(<< >>, "failed to read request line", first.pos, startLine)
        ELSE IF Len(parts) # 3
        THEN ParsedAt(<< >>, "invalid request line", first.pos, startLine)
        ELSE IF ~SupportedProtocol(parts[3])
        THEN ParsedAt(<< >>, "unsupported protocol", first.pos, startLine)
        ELSE IF hs.err # ""
        THEN ParsedAt(<< >>, hs.err, hs.pos, startLine)
        ELSE readBody(bytes, hs,
                      [Method |-> parts[1], Path |-> parts[2], Protocol |-> parts[3],
                       Headers |-> hs.headers, Body |-> <<>>],
                      startLine)

\* ---- the streams ----

\* the most words and spaces of a request line, the most bytes after the
\* blank line, the most parseRequest calls on one reader
MaxWords == 5
MaxBody == 3
MaxParses == 2

RECURSIVE Concat(_)
Concat(ss) == IF ss = <<>> THEN <<>> ELSE Head(ss) \o Concat(Tail(ss))

LineWords == {GET, PathX, HTTP11, HTTP20, SP}

\* every request line of up to MaxWords words and spaces
RequestLines ==
    { Concat(ws) : ws \in UNION { [1..n -> LineWords] : n \in 0..MaxWords } }

GoodLine == GET \o SP \o PathX \o SP \o HTTP11

\* a request line, ended or not, with or without the blank line after it
LineStreams ==
    { l \o t \o b : l \in RequestLines, t \in {CRLF, LF}, b \in {CRLF, <<>>} }
    \cup { GET \o SP \o PathX \o SP \o HTTP10 \o CRLF \o CRLF, GoodLine }

HeaderLine(name, value) == name \o <<":", " ">> \o value \o CRLF

\* the header names the server's consumers look up, and the values they test
Connection == <<"C", "o", "n", "n", "e", "c", "t", "i", "o", "n">>
AcceptEncoding ==
    <<"A", "c", "c", "e", "p", "t", "-", "E", "n", "c", "o", "d", "i", "n", "g">>
Close == <<"c", "l", "o", "s", "e">>
Gzip == <<"g", "z", "i", "p">>

UpperLetters ==
    <<"A", "B", "C", "D", "E", "F", "G", "H", "I", "J", "K", "L", "M",
      "N", "O", "P", "Q", "R", "S", "T", "U", "V", "W", "X", "Y", "Z">>
LowerLetters ==
    <<"a", "b", "c", "d", "e", "f", "g", "h", "i", "j", "k", "l", "m",
      "n", "o", "p", "q", "r", "s", "t", "u", "v", "w", "x", "y", "z">>

\* the text in lower case, byte by byte
LowerCase(text) ==
    [i \in 1..Len(text) |->
        IF \E j \in 1..Len(UpperLetters) : UpperLetters[j] = text[i]
        THEN LowerLetters[CHOOSE j \in 1..Len(UpperLetters) : UpperLetters[j] = text[i]]
        ELSE text[i]]

\* the names a peer writes in either spelling
ConsumedNames == {Connection, AcceptEncoding, ContentLength}

\* the header blocks: none, a Content-Length of each kind alone, after
\* another header, after a line without a colon, and given twice; and the
\* headers the consumers read, spelled canonically and in lower case
HeaderBlocks ==
    { <<>>, HeaderLine(<<"H", "o", "s", "t">>, <<"h">>) }
    \cup { HeaderLine(ContentLength, v) :
             v \in {<<"0">>, <<"2">>, <<"+", "1">>, <<"-", "1">>, <<"a">>, <<>>, <<"1", "0">>} }
    \cup { HeaderLine(<<"H", "o", "s", "t">>, <<"h">>) \o <<"x", "\r", "\n">>
             \o ContentLength \o <<":", "2", " ", "\r", "\n">>,
           HeaderLine(ContentLength, <<"a">>) \o HeaderLine(ContentLength, <<"1">>) }
    \cup { HeaderLine(LowerCase(ContentLength), <<"2">>),
           HeaderLine(Connection, Close), HeaderLine(LowerCase(Connection), Close),
           HeaderLine(AcceptEncoding, Gzip), HeaderLine(LowerCase(AcceptEncoding), Gzip) }

Body(n) == [i \in 1..n |-> "b"]

\* a well-formed request line, a header block, the blank line or the end of
\* the stream, up to MaxBody bytes, and then a second request or nothing
BodyStreams ==
    { GoodLine \o t \o h \o b \o Body(n) \o next :
        t \in {CRLF, LF}, h \in HeaderBlocks, b \in {CRLF, LF, <<>>},
        n \in 0..MaxBody, next \in {<<>>, GoodLine \o CRLF \o CRLF} }

ParseInit ==
    /\ NoServer
    /\ handlers = << >> /\ patterns = << >> /\ calls = << >>
    /\ matchPath = NoPath /\ matchResult = NotFound /\ matchAt = 0 /\ mu = << >> /\ gs = << >>
    /\ fs = << >> /\ req = << >> /\ served = << >> /\ direct = << >>
    /\ handled = << >> /\ wrapped = << >>
    /\ again = << >> /\ writes = << >>
    /\ heap = << >> /\ built = << >>
    /\ stream \in LineStreams \cup BodyStreams
    /\ parsed = << >>

\* the bytes the reader has consumed
ReaderPos == IF parsed = << >> THEN 0 ELSE parsed[Len(parsed)].pos

\* s.parseRequest(reader), again after a request was returned
ParseNext ==
    /\ Len(parsed) < MaxParses
    /\ parsed # << >> => parsed[Len(parsed)].err = ""
    /\ parsed' = Append(parsed, parseRequestBytes(stream, ReaderPos))
    /\ UNCHANGED <<routerVars, fs, req, served, direct, again, handled, wrapped,
                   stream, writes, heap, built, serverVars>>

SpecParse == ParseInit /\ [][ParseNext]_vars

---------------------------------------------------------------------------
(* Claims about parseRequest *)

Spaces(s) == Cardinality({i \in 1..Len(s) : s[i] = " "})

\* the line ends in a space and a supported protocol token
EndsInProtocol(s) == HasSuffix(s, SP \o HTTP11) \/ HasSuffix(s, SP \o HTTP10)

\* C22: parseRequest succeeds only when the request line splits into exactly
\* three space-separated tokens and the third token is HTTP/1.1 or HTTP/1.0;
\* method, path and protocol are then those three tokens in order; every
\* other request line is rejected with an error and yields no Request.
C22_RequestLine ==
    \A i \in 1..Len(parsed) :
        LET r == parsed[i]
        IN  /\ r.err = "" =>
                /\ Spaces(r.startLine) = 2
                /\ r.startLine = r.req.Method \o SP \o r.req.Path \o SP \o r.req.Protocol
                /\ r.req.Protocol \in {HTTP11, HTTP10}
            /\ (Spaces(r.startLine) # 2 \/ ~EndsInProtocol(r.startLine)) =>
                /\ r.err # ""
                /\ r.req = << >>

\* C22 witness: `GET /x HTTP/1.1` was parsed into its three tokens.
C22_Witness ==
    /\ Len(parsed) >= 1
    /\ parsed[1].err = ""
    /\ parsed[1].startLine = GoodLine
    /\ parsed[1].req.Method = GET
    /\ parsed[1].req.Path = PathX
    /\ parsed[1].req.Protocol = HTTP11

\* the text writes a non-negative integer: decimal digits after an optional
\* sign, the sign being a minus only before zeros
NonNegative(text) ==
    LET ds == IF text # <<>> /\ text[1] \in {"+", "-"} THEN Tail(text) ELSE text
    IN  /\ ds # <<>>
        /\ \A i \in 1..Len(ds) : ds[i] \in DOMAIN Digit
        /\ (text[1] = "-") => \A i \in 1..Len(ds) : ds[i] = "0"

\* the number the text writes
Magnitude(text) ==
    Decimal(IF text[1] \in {"+", "-"} THEN Tail(text) ELSE text)

\* the end of the first blank line after position pos of the stream: a
\* newline that follows a newline, with or without a carriage return between
BlankLineEnd(pos) ==
    Min({p \in (pos + 2)..Len(stream) :
            /\ stream[p] = "\n"
            /\ \/ stream[p - 1] = "\n"
               \/ p > pos + 2 /\ stream[p - 1] = "\r" /\ stream[p - 2] = "\n"})

\* where the i-th parseRequest call started to read
StartOf(i) == IF i = 1 THEN 0 ELSE parsed[i - 1].pos

\* C23: if a Content-Length header is present it must parse as a non-negative
\* integer, otherwise parsing fails; when it is positive, exactly that many
\* bytes after the blank line are consumed as the body (the bytes after them
\* are left for the next request), and end-of-stream before that many bytes
\* arrived is a parse error, never a short body.
C23_ContentLengthBody ==
    \A i \in 1..Len(parsed) :
        (parsed[i].err = "" /\ ContentLength \in DOMAIN parsed[i].req.Headers) =>
            LET text == parsed[i].req.Headers[ContentLength]
                end == BlankLineEnd(StartOf(i))
            IN  /\ NonNegative(text)
                /\ Magnitude(text) > 0 =>
                      /\ Len(parsed[i].req.Body) = Magnitude(text)
                      /\ parsed[i].req.Body = SubSeq(stream, end + 1, end + Magnitude(text))
                      /\ parsed[i].pos = end + Magnitude(text)

\* C23 witness: a request with Content-Length 2 and its two body bytes was
\* parsed, and the next call parsed the request that follows those bytes.
C23_Witness ==
    /\ Len(parsed) = 2
    /\ parsed[1].err = ""
    /\ ContentLength \in DOMAIN parsed[1].req.Headers
    /\ parsed[1].req.Headers[ContentLength] = <<"2">>
    /\ parsed[1].req.Body = <<"b", "b">>
    /\ parsed[2].err = ""
    /\ parsed[2].startLine = GoodLine

---------------------------------------------------------------------------
(* Claims about directories and repeated requests *)

\* the cleaned request path resolves to a directory inside the root
ResolvesToDirectory ==
    /\ ~URLParseFails(req.Path)
    /\ InsideRoot(FullPath(req))
    /\ StatErr(fs, FullPath(req)) = ""
    /\ fs[FullPath(req)].kind = "dir"

\* C24: when the cleaned request path resolves to a directory inside the
\* root (the root itself for an empty or `/` path, or a subdirectory), the
\* file handler serves that directory's index.html if it exists and returns
\* 404 otherwise; no path ever yields a directory listing.
C24_DirectoryIndex ==
    direct # << >> =>
        /\ ResolvesToDirectory =>
              /\ direct[1].err = ""
              /\ IF StatErr(fs, Join(FullPath(req), IndexName)) = ""
                 THEN /\ direct[1].resp.StatusCode = 200
                      /\ ServedFile(direct[1])
                      /\ ServedPath(direct[1]) = Join(FullPath(req), IndexName)
                 ELSE direct[1].resp.StatusCode = 404
        /\ ServedFile(direct[1]) => fs[ServedPath(direct[1])].kind = "file"

---------------------------------------------------------------------------
(* Claims about CORSMiddleware *)

AccessControlHeaders ==
    {"Access-Control-Allow-Origin", "Access-Control-Allow-Methods",
     "Access-Control-Allow-Headers", "Access-Control-Max-Age"}

\* the request carries a non-empty Origin that is in the allow-list, or the
\* allow-list contains the wildcard
OriginAllowed(allowedOrigins) ==
    /\ Get(req.Headers, "Origin") # ""
    /\ \E i \in DOMAIN allowedOrigins :
          allowedOrigins[i] \in {"*", Get(req.Headers, "Origin")}

\* C25: CORSMiddleware adds the access-control headers, with
\* Access-Control-Allow-Origin equal to the request's Origin, exactly when
\* the request carries a non-empty Origin that is in the allow-list or the
\* allow-list contains the wildcard `*`; in every other case it adds no
\* access-control header and returns the inner response without error.
C25_CORSHeaders ==
    ("CORS" \in DOMAIN wrapped /\ handled.err = "") =>
        LET after == wrapped["CORS"].result
        IN  /\ after.err = ""
            /\ IF OriginAllowed(wrapped["CORS"].allowedOrigins)
               THEN /\ AccessControlHeaders \subseteq DOMAIN after.resp.Headers
                    /\ after.resp.Headers["Access-Control-Allow-Origin"] =
                          req.Headers["Origin"]
               ELSE after.resp = handled.resp

\* the served directory was not changed between the two GET requests
Unchanged == \A q \in DOMAIN fs : fs[q].mtime = 1

---------------------------------------------------------------------------
(* Claims about shutdown and the connection handlers *)

\* C27: once shutdown has been signaled, by cancelling the context passed to
\* ListenAndServe, by a termination signal, or by calling Shutdown directly,
\* every connection handler that reaches the top of its keep-alive loop
\* exits without reading another request.
C27_HandlerSeesShutdown ==
    [][ \A c \in Conns :
          (Triggered /\ conns[c].hpc = "top" /\ conns'[c].hpc # "top") =>
              conns'[c].hpc = "done" ]_vars

\* a connection handler is running, or the acceptor holds an accepted
\* connection whose handler it is about to start
HandlerRunning == \E c \in Conns : conns[c].hpc \notin {"none", "done"}
HandlerPending == acceptor.pc \in {"add", "go"}

\* C28: whenever Shutdown returns success, no connection handler is running
\* and none starts afterwards: in every interleaving of the accept loop
\* (accept, then in-flight count increment, then handler start) with Shutdown
\* (listener close, then wait for the in-flight count to reach zero), a
\* connection accepted before the listener closed is counted before the wait
\* can complete.
C28_NoHandlerAfterShutdown ==
    (\E i \in DOMAIN sd : sd[i].pc = "returned" /\ sd[i].result = "nil") =>
        /\ ~HandlerRunning
        /\ ~HandlerPending
---------------------------------------------------------------------------
(* writeResponse: the response handleRequest returned is written to the    *)
(* connection; any of its writes may fail                                  *)

\* the writes of writeResponse, in the order of the code
WriteSteps == <<"status line", "header", "blank line", "header flush",
                "copy", "body", "flush">>

\* the writes writeResponse makes for this response: a header write only if
\* there is a header, io.Copy and its flush only for a Reader, Write only
\* for a non-empty Body
StepsOf(response) ==
    { "status line", "blank line", "header flush", "flush" }
        \cup (IF DOMAIN response.Headers # {} THEN {"header"} ELSE {})
        \cup (IF response.Reader.set THEN {"copy"}
              ELSE IF response.Body.len > 0 THEN {"body"} ELSE {})

\* what writeResponse did: its error, how often it closed the Reader, and
\* whether the head and the whole response reached the connection
WriteResult(err, closes, head, whole) ==
    [err |-> err, closes |-> closes, head |-> head, whole |-> whole]

\* HTTPServer.writeResponse; failAt is the write that fails, "" if none does
writeResponse(response, failAt) ==
    IF failAt \in {"status line", "header", "blank line", "header flush"}
    THEN WriteResult("write: " \o failAt, 0, FALSE, FALSE)
    ELSE IF response.Reader.set
    THEN \* defer response.Reader.Close()
         IF failAt \in {"copy", "flush"}
         THEN WriteResult("write: " \o failAt, 1, TRUE, FALSE)
         ELSE WriteResult("", 1, TRUE, TRUE)
    ELSE IF failAt \in {"body", "flush"}
    THEN WriteResult("write: " \o failAt, 0, TRUE, FALSE)
    ELSE WriteResult("", 0, TRUE, TRUE)

\* the requests whose responses are written: a small file, a streamed file,
\* the root directory (its index.html, if there is one, is compressed for a
\* client that accepts gzip), the test route
WritePaths ==
    { <<"/", "a", ".txt">>, <<"/", "c", ".png">>, <<"/">>, TestRoute }

WriteInit ==
    /\ NoServer
    /\ calls = << >> /\ matchPath = NoPath /\ matchResult = NotFound /\ matchAt = 0 /\ mu = << >> /\ gs = << >>
    /\ handlers = AddRouteHandlers(<< >>, TestRoute, "h1")
    /\ patterns = AddRoutePatterns(<< >>, DefaultRoute, "file")
    /\ fs \in FileSystems
    /\ req \in [Path : WritePaths, Protocol : {"HTTP/1.1"}, Headers : RequestHeaders]
    /\ served = << >>
    /\ direct = << >>
    /\ handled = << >> /\ wrapped = << >>
    /\ stream = << >> /\ parsed = << >> /\ again = << >> /\ writes = << >>
    /\ heap = << >> /\ built = << >>

\* s.writeResponse(writer, response) in handleConnection, on the response
\* s.handleRequest returned for method m
WriteResponse(m) ==
    /\ m \in DOMAIN served
    /\ m \notin DOMAIN writes
    /\ \E failAt \in StepsOf(served[m].resp) \cup {""} :
          writes' = (m :> writeResponse(served[m].resp, failAt)) @@ writes
    /\ UNCHANGED <<routerVars, fs, req, served, direct, again, handled, wrapped,
                   stream, parsed, heap, built, serverVars>>

WriteNext ==
    \/ \E m \in Methods : Serve(m)
    \/ \E m \in Methods : WriteResponse(m)

SpecWrite == WriteInit /\ [][WriteNext]_vars

---------------------------------------------------------------------------
(* Claims about the body of a response *)

\* the pipeline gave handleRequest a response with a Reader: it is still set,
\* or handleRequest closed it for HEAD
HadStream(m) == served[m].resp.Reader.set \/ served[m].closes > 0

\* C29: for every response whose body is a stream, the stream is closed
\* exactly once by the time the connection handler is done with that
\* response, on every path: a successful write, a HEAD discard, and a failure
\* while writing the status line, the headers, the header flush or the body.
C29_StreamClosedOnce ==
    \A m \in DOMAIN writes :
        HadStream(m) => served[m].closes + writes[m].closes = 1

\* C30: in every response that reaches the serializer, at most one of the
\* in-memory body and the streaming source is set: no sequence of handler,
\* middleware and HEAD-handling steps of the server produces a response that
\* has both a non-empty Body and a non-nil Reader.
C30_BodyOrReader ==
    \A m \in DOMAIN writes :
        ~(served[m].resp.Body.len > 0 /\ served[m].resp.Reader.set)

\* C30 witness: a streamed file was served through the pipeline with no Body
\* and written whole.
C30_Witness ==
    /\ "GET" \in DOMAIN writes
    /\ writes["GET"].whole
    /\ served["GET"].routed
    /\ served["GET"].resp.Reader.set
    /\ served["GET"].resp.Body.len = 0
---------------------------------------------------------------------------
(* The file handler on files of sizes around the streaming threshold *)

SizedPath == <<"/", "m", ".bin">>
SizedFile == FileDirectory \o SizedPath
SmallFile == FileDirectory \o <<"/", "a", ".txt">>

\* the sizes of /w/m.bin: empty, small, one below the threshold, the
\* threshold, one above it, twice the threshold
FileSizes ==
    { 0, 20, streamThreshold - 1, streamThreshold, streamThreshold + 1,
      2 * streamThreshold }

\* the file system with /w/m.bin of the given size
FSSized(size, readable) == (SizedFile :> File(size, readable)) @@ FSNoIndex

SizedInit ==
    /\ NoServer
    /\ calls = << >> /\ matchPath = NoPath /\ matchResult = NotFound /\ matchAt = 0 /\ mu = << >> /\ gs = << >>
    /\ handlers = << >>
    /\ patterns = AddRoutePatterns(<< >>, DefaultRoute, "file")
    /\ fs \in { FSSized(size, readable) : size \in FileSizes, readable \in BOOLEAN }
    /\ req \in [Path : {SizedPath, <<"/", "a", ".txt">>}, Protocol : Protocols,
                Headers : RequestHeaders]
    /\ served = << >>
    /\ direct = << >>
    /\ handled = << >> /\ wrapped = << >>
    /\ stream = << >> /\ parsed = << >> /\ again = << >> /\ writes = << >>
    /\ heap = << >> /\ built = << >>

SizedNext ==
    \/ CallFileHandler
    \/ \E m \in Methods : Serve(m)

SpecSized == SizedInit /\ [][SizedNext]_vars

\* the file the request of this specification asks for
TargetFile == IF req.Path = SizedPath THEN SizedFile ELSE SmallFile

\* the response streams file f: the Reader is the open file, the Body empty
Streams(response, f) ==
    response.Reader = FileReader(f) /\ response.Body.len = 0

\* the response holds file f in memory: all its bytes in Body, no Reader
InMemory(response, f, size) ==
    response.Body = Bytes(f, size) /\ ~response.Reader.set

\* C31: the file handler streams a file (sets the streaming source and leaves
\* the in-memory body empty) exactly when the file's size is at or above the
\* 1 MiB threshold, and reads it fully into memory exactly when its size is
\* below the threshold.
C31_StreamAtOrAbove ==
    (direct # << >> /\ direct[1].err = "") =>
        LET size == fs[TargetFile].size
        IN  /\ Streams(direct[1].resp, TargetFile) <=> size >= streamThreshold
            /\ InMemory(direct[1].resp, TargetFile, size) <=> size < streamThreshold

\* C31 as amended: the file handler streams a file exactly when its size is
\* strictly above the 1 MiB threshold, and reads it fully into memory exactly
\* when its size is at or below the threshold.
C31_StreamAbove ==
    (direct # << >> /\ direct[1].err = "") =>
        LET size == fs[TargetFile].size
        IN  /\ Streams(direct[1].resp, TargetFile) <=> size > streamThreshold
            /\ InMemory(direct[1].resp, TargetFile, size) <=> size <= streamThreshold

\* C31 witness: a file of exactly the threshold size was served from memory.
C31_Witness ==
    /\ direct # << >>
    /\ direct[1].err = ""
    /\ req.Path = SizedPath
    /\ fs[SizedFile].size = streamThreshold
    /\ InMemory(direct[1].resp, SizedFile, streamThreshold)
---------------------------------------------------------------------------
(* Idle connections: one peer that may fall silent at any point *)

\* one peer, MaxRequests requests, no direct Shutdown call
IdleInit == ServerStart(1, MaxRequests, {"las"}, MaxAcceptErrors)

\* a step of the goroutine that runs handleConnection for connection c, up
\* to the body of the response; the timeout is among them, since time passes
HandlerStep(c) ==
    \/ LoopTop(c)
    \/ ParseStep(c)
    \/ ReadTimeout(c)
    \/ WriteHead(c)

\* weak fairness of RespondStep(c), written out: the step is enabled exactly
\* when the handler is at "body" and always leaves "body"
RespondFair(c) == []<>(conns[c].hpc # "body")

\* the scheduler runs every handler goroutine that can take a step; nothing
\* obliges a peer to write or to close
SpecIdle ==
    /\ IdleInit
    /\ [][ServerNext]_vars
    /\ \A c \in {1} : WF_vars(HandlerStep(c)) /\ RespondFair(c)

\* the handler of connection c is running
Handling(c) == conns[c].hpc \notin {"none", "done"}

\* C32: every connection whose peer stops sending is eventually closed by
\* the server: the connection handler arms a fixed 30-unit deadline after
\* each successfully completed exchange, a read that outlasts the deadline
\* ends the handler, and no accepted connection can keep a handler waiting
\* for a request forever.
C32_IdleConnectionClosed ==
    /\ [][ \A c \in Conns :
             (conns[c].hpc = "body" /\ conns'[c].hpc = "top") => conns'[c].deadline ]_vars
    /\ \A c \in {1} : Handling(c) ~> conns[c].hpc = "done"
---------------------------------------------------------------------------
(* The router shared by goroutines: AddRoute and Match under HTTPRouter.mu, *)
(* and the handler function that handleRequest runs once Match has returned *)

\* handlers of this part: h1 only answers, hadd calls AddRoute while it
\* answers, hmatch calls Match while it answers
SharedHandlers == {"h1", "hadd", "hmatch"}

\* the routes registered before the router is shared
\* "/a" -> hadd, "/b" -> hmatch, "^/b.*$" -> h1
SharedSetup ==
    << [pattern |-> <<"/", "a">>, handler |-> "hadd"],
       [pattern |-> <<"/", "b">>, handler |-> "hmatch"],
       [pattern |-> <<"^", "/", "b", ".", "*", "$">>, handler |-> "h1"] >>

\* the routes added while requests are served
\* "/ab" -> h1 (exact), "^/a.*$" -> h2 (pattern)
SharedRoutes ==
    { [pattern |-> <<"/", "a", "b">>, handler |-> "h1"],
      [pattern |-> <<"^", "/", "a", ".", "*", "$">>, handler |-> "h2"] }

\* "/a" "/b" "/ab" "/c"
SharedPaths == { <<"/", "a">>, <<"/", "b">>, <<"/", "a", "b">>, <<"/", "c">> }

\* AddRoute calls after which nobody adds another route
MaxShared == 5

\* the route table after the calls cs, made one after the other
RECURSIVE HandlersAfter(_)
HandlersAfter(cs) ==
    IF cs = << >> THEN << >>
    ELSE AddRouteHandlers(HandlersAfter(SubSeq(cs, 1, Len(cs) - 1)),
                          cs[Len(cs)].pattern, cs[Len(cs)].handler)

RECURSIVE PatternsAfter(_)
PatternsAfter(cs) ==
    IF cs = << >> THEN << >>
    ELSE AddRoutePatterns(PatternsAfter(SubSeq(cs, 1, Len(cs) - 1)),
                          cs[Len(cs)].pattern, cs[Len(cs)].handler)

\* the goroutines: one that goes on adding routes, two connection handlers
Setup == "setup"
Goroutines == {Setup, "c1", "c2"}

\* sync.RWMutex: the goroutine inside Lock..Unlock, those inside
\* RLock..RUnlock, and those blocked in Lock (which keep new readers out)
Unlocked == [w |-> "", r |-> {}, pending |-> {}]

\* what the runtime reports when a map is read while it is written
Fatal == [found |-> FALSE, handler |-> "fatal error: concurrent map read and map write"]

Idle ==
    [pc |-> "idle",      \* where the goroutine is
     path |-> NoPath,    \* Match: its argument
     began |-> 0,        \* Match: AddRoute calls completed when it was called
     sawExact |-> 0,     \* Match: AddRoute calls completed at the map lookup
     sawScan |-> 0,      \* Match: AddRoute calls completed at the pattern loop
     res |-> NotFound,   \* Match: its result
     route |-> << >>,    \* AddRoute: its arguments
     fn |-> "",          \* the handler function handleRequest is running
     nested |-> FALSE]   \* the call in progress was made by that function

SharedInit ==
    /\ NoServer
    /\ fs = << >> /\ req = << >> /\ served = << >> /\ direct = << >>
    /\ handled = << >> /\ wrapped = << >>
    /\ stream = << >> /\ parsed = << >> /\ again = << >> /\ writes = << >>
    /\ heap = << >> /\ built = << >>
    /\ handlers = HandlersAfter(SharedSetup)
    /\ patterns = PatternsAfter(SharedSetup)
    /\ calls = SharedSetup
    /\ matchPath = NoPath /\ matchResult = NotFound /\ matchAt = 0
    /\ mu = Unlocked
    /\ gs = [g \in Goroutines |-> Idle]

\* what the shared-router steps leave alone
SharedFrame == <<matchPath, matchResult, matchAt, requestVars, serverVars>>
Table == <<handlers, patterns, calls>>

\* a store into the route table is in progress
Storing == \E g \in DOMAIN gs : gs[g].pc = "storing"

\* server.AddRoute(pattern, handler) is called: by the setup goroutine, or
\* by the handler function hadd
CallAddRoute(g, route) ==
    /\ Len(calls) + Cardinality({h \in DOMAIN gs : gs[h].route # << >>}) < MaxShared
    /\ \/ g = Setup /\ gs[g].pc = "idle"
       \/ g # Setup /\ gs[g].pc = "exec" /\ gs[g].fn = "hadd"
    /\ gs' = [gs EXCEPT ![g].pc = "lock", ![g].route = route,
                        ![g].nested = (g # Setup)]
    /\ UNCHANGED <<mu, Table, SharedFrame>>

\* r.mu.Lock() is entered: from now on new readers wait
LockCall(g) ==
    /\ gs[g].pc = "lock"
    /\ mu' = [mu EXCEPT !.pending = @ \cup {g}]
    /\ gs' = [gs EXCEPT ![g].pc = "lockwait"]
    /\ UNCHANGED <<Table, SharedFrame>>

\* mutant of LockAcquire: the writer does not wait for the readers to leave
Mutant_LockAcquire_IgnoresReaders(g) ==
    /\ gs[g].pc = "lockwait"
    /\ mu.w = ""
    /\ mu' = [mu EXCEPT !.w = g, !.pending = @ \ {g}]
    /\ gs' = [gs EXCEPT ![g].pc = "store"]
    /\ UNCHANGED <<Table, SharedFrame>>

\* r.mu.Lock() returns: no writer and no reader is inside
LockAcquire(g) ==
    /\ gs[g].pc = "lockwait"
    /\ mu.w = "" /\ mu.r = {}
    /\ mu' = [mu EXCEPT !.w = g, !.pending = @ \ {g}]
    /\ gs' = [gs EXCEPT ![g].pc = "store"]
    /\ UNCHANGED <<Table, SharedFrame>>

\* AddRoute: the map assignment or the append begins
StoreBegin(g) ==
    /\ gs[g].pc = "store"
    /\ gs' = [gs EXCEPT ![g].pc = "storing"]
    /\ UNCHANGED <<mu, Table, SharedFrame>>

\* AddRoute: the map assignment or the append is complete
StoreEnd(g) ==
    /\ gs[g].pc = "storing"
    /\ handlers' = AddRouteHandlers(handlers, gs[g].route.pattern, gs[g].route.handler)
    /\ patterns' = AddRoutePatterns(patterns, gs[g].route.pattern, gs[g].route.handler)
    /\ calls' = Append(calls, gs[g].route)
    /\ gs' = [gs EXCEPT ![g].pc = "unlock"]
    /\ UNCHANGED <<mu, SharedFrame>>

\* AddRoute returns: the deferred r.mu.Unlock() runs
Unlock(g) ==
    /\ gs[g].pc = "unlock"
    /\ mu' = [mu EXCEPT !.w = ""]
    /\ gs' = [gs EXCEPT ![g].pc = IF gs[g].nested THEN "exec2" ELSE "idle",
                        ![g].route = << >>, ![g].nested = FALSE]
    /\ UNCHANGED <<Table, SharedFrame>>

\* s.Router.Match(path) is called: by handleRequest of a connection handler,
\* or by the handler function hmatch
CallMatch(g, path) ==
    /\ g # Setup
    /\ \/ gs[g].pc = "idle"
       \/ gs[g].pc = "exec" /\ gs[g].fn = "hmatch"
    /\ gs' = [gs EXCEPT ![g].pc = "rlock", ![g].path = path,
                        ![g].began = Len(calls),
                        ![g].nested = (gs[g].pc = "exec")]
    /\ UNCHANGED <<mu, Table, SharedFrame>>

\* r.mu.RLock() returns: no writer is inside or waiting
RLock(g) ==
    /\ gs[g].pc = "rlock"
    /\ mu.w = "" /\ mu.pending = {}
    /\ mu' = [mu EXCEPT !.r = @ \cup {g}]
    /\ gs' = [gs EXCEPT ![g].pc = "exact"]
    /\ UNCHANGED <<Table, SharedFrame>>

\* Match: r.handlers[path]; reading the table during a store is a data race,
\* which gives the old table's answer or stops the program
ExactLookup(g) ==
    /\ gs[g].pc = "exact"
    /\ \E raced \in BOOLEAN :
          /\ raced => Storing
          /\ gs' = [gs EXCEPT ![g] =
                IF raced THEN [@ EXCEPT !.pc = "runlock", !.res = Fatal,
                                        !.sawExact = Len(calls)]
                ELSE IF gs[g].path \in DOMAIN handlers
                THEN [@ EXCEPT !.pc = "runlock", !.res = Found(handlers[gs[g].path]),
                               !.sawExact = Len(calls), !.sawScan = Len(calls)]
                ELSE [@ EXCEPT !.pc = "scan", !.sawExact = Len(calls)]]
    /\ UNCHANGED <<mu, Table, SharedFrame>>

\* Match: the loop over r.patterns
Scan(g) ==
    /\ gs[g].pc = "scan"
    /\ \E raced \in BOOLEAN :
          /\ raced => Storing
          /\ gs' = [gs EXCEPT ![g] =
                IF raced THEN [@ EXCEPT !.pc = "runlock", !.res = Fatal,
                                        !.sawScan = Len(calls)]
                ELSE [@ EXCEPT !.pc = "runlock", !.sawScan = Len(calls),
                               !.res = IF FirstMatch(patterns, gs[g].path) # 0
                                       THEN Found(patterns[FirstMatch(patterns, gs[g].path)].handler)
                                       ELSE NotFound]]
    /\ UNCHANGED <<mu, Table, SharedFrame>>

\* mutant of RUnlock: the read lock is kept until the handler function is done
Mutant_RUnlock_AfterHandler(g) ==
    /\ gs[g].pc = "runlock"
    /\ mu' = IF gs[g].nested \/ ~gs[g].res.found
             THEN [mu EXCEPT !.r = @ \ {g}] ELSE mu
    /\ gs' = [gs EXCEPT ![g] =
                IF gs[g].nested THEN [@ EXCEPT !.pc = "exec2", !.nested = FALSE]
                ELSE IF gs[g].res.found
                THEN [@ EXCEPT !.pc = "exec", !.fn = gs[g].res.handler]
                ELSE [@ EXCEPT !.pc = "done"]]
    /\ UNCHANGED <<Table, SharedFrame>>

\* Match returns: the deferred r.mu.RUnlock() runs; handleRequest then runs
\* the handler function (through the pipeline), or answers 404
RUnlock(g) ==
    /\ gs[g].pc = "runlock"
    /\ mu' = [mu EXCEPT !.r = @ \ {g}]
    /\ gs' = [gs EXCEPT ![g] =
                IF gs[g].nested THEN [@ EXCEPT !.pc = "exec2", !.nested = FALSE]
                ELSE IF gs[g].res.found
                THEN [@ EXCEPT !.pc = "exec", !.fn = gs[g].res.handler]
                ELSE [@ EXCEPT !.pc = "done"]]
    /\ UNCHANGED <<Table, SharedFrame>>

\* the handler function returns its response: at once, or after the call it
\* made to the router
HandlerReturns(g) ==
    /\ \/ gs[g].pc = "exec" /\ gs[g].fn \notin {"hadd", "hmatch"}
       \/ gs[g].pc = "exec2"
    /\ gs' = [gs EXCEPT ![g].pc = "done", ![g].fn = ""]
    /\ UNCHANGED <<mu, Table, SharedFrame>>

SharedNext ==
    \/ \E g \in Goroutines, route \in SharedRoutes : CallAddRoute(g, route)
    \/ \E g \in Goroutines : LockCall(g)
    \/ \E g \in Goroutines : LockAcquire(g)
    \/ \E g \in Goroutines : StoreBegin(g)
    \/ \E g \in Goroutines : StoreEnd(g)
    \/ \E g \in Goroutines : Unlock(g)
    \/ \E g \in Goroutines, path \in SharedPaths : CallMatch(g, path)
    \/ \E g \in Goroutines : RLock(g)
    \/ \E g \in Goroutines : ExactLookup(g)
    \/ \E g \in Goroutines : Scan(g)
    \/ \E g \in Goroutines : RUnlock(g)
    \/ \E g \in Goroutines : HandlerReturns(g)

SpecShared == SharedInit /\ [][SharedNext]_vars
---------------------------------------------------------------------------
(* Claims about the shared router *)

\* goroutine g has the result of a Match call in hand
Matched(g) == gs[g].pc = "runlock"

\* C33: when AddRoute runs concurrently with Match calls, every Match
\* returns a result consistent with the route table either entirely before
\* or entirely after that AddRoute; no Match observes a partially added
\* route, and a route visible to one Match is visible to every later Match.
C33_MatchSeesWholeRoutes ==
    \A g \in DOMAIN gs :
        Matched(g) =>
            /\ gs[g].res # Fatal
            /\ gs[g].sawExact = gs[g].sawScan
            /\ gs[g].began <= gs[g].sawExact
            /\ gs[g].res = Match(HandlersAfter(SubSeq(calls, 1, gs[g].sawExact)),
                                 PatternsAfter(SubSeq(calls, 1, gs[g].sawExact)),
                                 gs[g].path)

\* C33 witness: a Match called before an AddRoute had stored its route
\* waited for it and answered from the table with that route.
C33_Witness ==
    \E g \in DOMAIN gs :
        /\ Matched(g)
        /\ gs[g].began < gs[g].sawExact
        /\ gs[g].path = <<"/", "a", "b">>
        /\ gs[g].res.found

\* goroutine g is running a handler function (and not a router call made by
\* that function)
Executing(g) == gs[g].pc \in {"exec", "exec2"}

\* goroutine g is waiting for the lock
Waiting(g) == gs[g].pc \in {"lockwait", "rlock"}

\* C34: the router's lock is never held while a request handler executes:
\* Match releases its read lock before the connection handler invokes the
\* returned handler function, so a slow handler never blocks AddRoute or
\* other connections' Match calls, and a handler that itself calls AddRoute
\* or Match does not deadlock.
C34_NoLockAcrossHandler ==
    /\ \A g \in DOMAIN gs : Executing(g) => (g \notin mu.r /\ mu.w # g)
    /\ \A g \in DOMAIN gs :
          (gs[g].fn # "" /\ Waiting(g)) => (g \notin mu.r /\ mu.w # g)
    /\ (\E g \in DOMAIN gs : Waiting(g)) =>
          \E h \in DOMAIN gs :
              \/ ENABLED LockAcquire(h) \/ ENABLED RLock(h)
              \/ gs[h].pc \in {"store", "storing", "unlock", "exact", "scan", "runlock"}

\* C34 witness: a handler function called AddRoute while another connection
\* handler was running its own handler function, and got the lock.
C34_Witness ==
    \E g, h \in DOMAIN gs :
        /\ g # h
        /\ gs[g].fn = "hadd" /\ gs[g].pc = "store" /\ mu.w = g
        /\ gs[h].pc = "exec"
---------------------------------------------------------------------------
(* Claims about the route table's two structures *)

\* the AddRoute call made in this step
LastCall == calls'[Len(calls')]

\* C35: AddRoute stores its input as an exact route when it contains no
\* regex metacharacter or when it contains one but fails to compile, and as
\* a pattern appended at the end of the ordered pattern list otherwise; each
\* call adds to exactly one of the two structures and leaves every
\* previously registered pattern and its position unchanged.
C35_AddRouteStoresOnce ==
    [][ Len(calls') = Len(calls) + 1 =>
          IF ExactCall(LastCall)
          THEN /\ patterns' = patterns
               /\ DOMAIN handlers' = DOMAIN handlers \cup {LastCall.pattern}
               /\ handlers'[LastCall.pattern] = LastCall.handler
               /\ \A q \in DOMAIN handlers \ {LastCall.pattern} :
                     handlers'[q] = handlers[q]
          ELSE /\ handlers' = handlers
               /\ Len(patterns') = Len(patterns) + 1
               /\ patterns'[Len(patterns')] = LastCall
               /\ \A i \in 1..Len(patterns) : patterns'[i] = patterns[i] ]_vars

\* C35 witness: a route with a metacharacter that does not compile is in the
\* exact map, and a pattern was appended behind an earlier one.
C35_Witness ==
    /\ Len(patterns) >= 2
    /\ patterns[Len(patterns)] = calls[Len(calls)]
    /\ \E i \in 1..Len(calls) :
          /\ isRegexPattern(calls[i].pattern)
          /\ ~Compiles(calls[i].pattern)
          /\ calls[i].pattern \in DOMAIN handlers
---------------------------------------------------------------------------
(* Header maps as objects in memory: Go maps are references, so two         *)
(* responses, or a response and DefaultResponseHeaders, may hold the same   *)
(* map.  heap[a] is the map at address a; address 1 is the package variable *)
(* DefaultResponseHeaders, address 0 is nil.                                *)

\* responses built in one run
MaxBuilt == 2

\* the request the middlewares see
HeapRequest ==
    [Method |-> "GET", Path |-> <<"/">>, Protocol |-> "HTTP/1.1",
     Headers |-> [k \in {"Accept-Encoding"} |-> "gzip"]]

\* mutant of copyHeadersTo: the source map itself is handed out
Mutant_copyHeadersTo_Alias(h, src) == [heap |-> h, at |-> src]

\* copyHeaders(src): a new map with the entries of the map at src
copyHeadersTo(h, src) == [heap |-> Append(h, copyHeaders(h[src])), at |-> Len(h) + 1]

\* a response and the address of its header map
Built(at, response) == [at |-> at, resp |-> [response EXCEPT !.Headers = << >>],
                        applied |-> {}]

\* the response as the pure operators see it
Deref(b) == [b.resp EXCEPT !.Headers = IF b.at = 0 THEN NilMap ELSE heap[b.at]]

HeapInit ==
    /\ NoServer
    /\ calls = << >> /\ matchPath = NoPath /\ matchResult = NotFound
    /\ matchAt = 0 /\ mu = << >> /\ gs = << >>
    /\ handlers = << >> /\ patterns = << >>
    /\ fs = FSIndex /\ req = HeapRequest /\ served = << >> /\ direct = << >>
    /\ handled = << >> /\ wrapped = << >>
    /\ stream = << >> /\ parsed = << >> /\ again = << >> /\ writes = << >>
    /\ heap = <<DefaultResponseHeaders>>
    /\ built = << >>

HeapFrame ==
    <<routerVars, fs, req, served, direct, again, handled, wrapped, stream, parsed,
      writes, serverVars>>

\* HTTPBaseResponse(statusCode, statusText), and for 405 the Allow header
\* that HTTP405MethodNotAllowed adds to the response's map
BuildError(response) ==
    /\ Len(built) < MaxBuilt
    /\ LET c == copyHeadersTo(heap, 1)
           text == ToString(response.StatusCode) \o " " \o response.StatusText
           own == Set(Set(c.heap[c.at], "Content-Length", ToString(Len(text))),
                      "Content-Type", "text/plain; charset=utf-8")
       IN  /\ heap' = [c.heap EXCEPT ![c.at] =
                          IF response.StatusCode = 405
                          THEN Set(own, "Allow", "GET, HEAD") ELSE own]
           /\ built' = Append(built, Built(c.at, response))
    /\ UNCHANGED HeapFrame

\* FileHandler.Handle: Headers: make(map[string]string), then its entries
BuildFile(path) ==
    /\ Len(built) < MaxBuilt
    /\ LET r == ServeFile(req, fs, path)
       IN  /\ r.err = ""
           /\ heap' = Append(heap, r.resp.Headers)
           /\ built' = Append(built, Built(Len(heap) + 1, r.resp))
    /\ UNCHANGED HeapFrame

\* a handler that returns a response without a header map
BuildNil ==
    /\ Len(built) < MaxBuilt
    /\ built' = Append(built, Built(0, [NilResponse EXCEPT !.StatusCode = 200]))
    /\ UNCHANGED <<heap, HeapFrame>>

\* a middleware of the pipeline runs on response i: what it assigns goes to
\* the map the response holds (BaseMiddleware makes one for a nil map)
Mutate(i, name) ==
    /\ i \in 1..Len(built)
    /\ name \notin built[i].applied
    /\ LET out == ApplyMiddleware(name, req, Ok(Deref(built[i]), <<>>))
           at == IF built[i].at = 0 /\ out.resp.Headers # NilMap
                 THEN Len(heap) + 1 ELSE built[i].at
       IN  /\ out.err = ""
           /\ heap' = IF at = 0 THEN heap
                      ELSE IF at > Len(heap) THEN Append(heap, out.resp.Headers)
                      ELSE [heap EXCEPT ![at] = out.resp.Headers]
           /\ built' = [built EXCEPT ![i] =
                           [at |-> at, resp |-> [out.resp EXCEPT !.Headers = << >>],
                            applied |-> @.applied \cup {name}]]
    /\ UNCHANGED HeapFrame

HeapNext ==
    \/ \E response \in {HTTP400BadRequest, HTTP404NotFound, HTTP405MethodNotAllowed,
                        HTTP500InternalServerError} : BuildError(response)
    \/ \E path \in {<<"/", "w", "/", "a", ".txt">>, <<"/", "w", "/", "index", ".html">>} :
          BuildFile(path)
    \/ BuildNil
    \/ \E i \in 1..MaxBuilt, name \in {"Base", "Logging", "Gzip"} : Mutate(i, name)

SpecHeap == HeapInit /\ [][HeapNext]_vars

\* the responses that hold the map at address a
Holders(a) == {i \in 1..Len(built) : built[i].at = a}

\* C36: no operation of the server (the error-response constructors,
\* BaseMiddleware, any handler or middleware of the default pipeline) ever
\* changes the shared default header table: each response gets its own
\* header map, so adding or changing a header on one response (for example
\* Allow on a 405, or Content-Length) never shows up in the defaults or in
\* any other response.
C36_DefaultsUntouched ==
    /\ heap[1] = DefaultResponseHeaders
    /\ \A i \in 1..Len(built) : built[i].at # 1
    /\ \A a \in 2..Len(heap) : Cardinality(Holders(a)) <= 1

\* C36 witness: a 405 with its Allow header and another error response are
\* in memory, BaseMiddleware has run on one of them, and the 405's Allow
\* header is in its own map only.
C36_Witness ==
    /\ Len(built) = 2
    /\ built[1].resp.StatusCode = 405 /\ built[2].resp.StatusCode = 404
    /\ "Base" \in built[2].applied
    /\ "Allow" \in DOMAIN heap[built[1].at]
    /\ "Allow" \notin DOMAIN heap[built[2].at]
    /\ "Allow" \notin DOMAIN heap[1]

---------------------------------------------------------------------------
(* Claims about the spelling of request header names *)

\* the string the bytes spell
RECURSIVE Str(_)
Str(text) == IF text = <<>> THEN "" ELSE text[1] \o Str(Tail(text))

\* the parsed headers as the map[string]string the consumers index
AsHeaders(hs) ==
    [k \in {Str(key) : key \in DOMAIN hs} |->
        Str(hs[CHOOSE key \in DOMAIN hs : Str(key) = k])]

\* the canonical spelling of a header name the consumers look up
Canon(key) ==
    IF \E n \in ConsumedNames : LowerCase(n) = LowerCase(key)
    THEN CHOOSE n \in ConsumedNames : LowerCase(n) = LowerCase(key)
    ELSE key

\* the headers of the canonically spelled request
Canonical(hs) ==
    [n \in {Canon(key) : key \in DOMAIN hs} |->
        hs[CHOOSE key \in DOMAIN hs : Canon(key) = n]]

\* the decisions of the consumers on a request with these headers whose
\* header block ended at position pos: the keep-alive test of
\* handleConnection, the Accept-Encoding test of GzipMiddleware and the body
\* parseRequest reads
Decisions(hs, pos, p) ==
    LET framed == readBody(stream, [headers |-> hs, pos |-> pos, err |-> ""],
                           [p.req EXCEPT !.Headers = hs, !.Body = <<>>], p.startLine)
    IN  [close |-> WantsClose([Headers |-> AsHeaders(hs)]),
         gzip |-> ContainsGzip(Get(AsHeaders(hs), "Accept-Encoding")),
         err |-> framed.err,
         body |-> IF framed.err = "" THEN framed.req.Body ELSE <<>>,
         pos |-> framed.pos]

\* C37: request headers are read case-insensitively by the server's
\* consumers: a request whose header names differ from the canonical spelling
\* only in letter case gets the same keep-alive decision, compression
\* decision and body framing as the canonically spelled request.
C37_HeadersCaseInsensitive ==
    \A i \in 1..Len(parsed) :
        parsed[i].err = "" =>
            LET hs == parsed[i].req.Headers
                end == BlankLineEnd(StartOf(i))
            IN  Decisions(hs, end, parsed[i]) = Decisions(Canonical(hs), end, parsed[i])

---------------------------------------------------------------------------
(* Claims about the peer address of a request *)

\* conn.RemoteAddr().String() of the c-th connection
RemoteAddrOf(c) == "peer" \o ToString(c)

\* the "remote" attribute LoggingMiddleware writes for the request
LoggedRemote(request) == request.RemoteAddr

\* the connection handler holds a request it passes, or has passed, to
\* handleRequest
Answering(c) == conns[c].hpc \in {"write", "body"} /\ conns[c].cur # << >>

\* C38: every Request the connection handler passes to the handler pipeline
\* carries the remote peer address of the connection it was read from, so the
\* entries of the logging middleware record that connection's peer address.
C38_RequestCarriesPeerAddress ==
    \A c \in Conns :
        Answering(c) =>
            /\ conns[c].cur.RemoteAddr = RemoteAddrOf(c)
            /\ LoggedRemote(conns[c].cur) = RemoteAddrOf(c)

---------------------------------------------------------------------------
(* Claims about repeated Shutdown calls *)

\* C39: Shutdown is idempotent: a call made after another Shutdown call has
\* completed, or while another one is running, reports no error for that
\* reason; it returns nil, or the deadline error when its own grace period
\* expired.
C39_ShutdownIdempotent ==
    \A i \in DOMAIN sd :
        sd[i].pc = "returned" =>
            sd[i].result \in {"nil", "context deadline exceeded"}

---------------------------------------------------------------------------
(* Claims about the Content-Length of a response *)

\* the body bytes writeResponse writes for the response: what io.Copy reads
\* from the Reader, the whole file, or else the Body
BodyWritten(response, files) ==
    IF response.Reader.set THEN files[response.Reader.file].size
    ELSE response.Body.len

\* C40: for every GET request the response handleRequest returns has a
\* Content-Length header equal to the number of body bytes the serializer
\* will write: the length of the in-memory body, after any compression, or
\* the size of a streamed file; the same holds for the 404, 405 and 500
\* responses.
C40_ContentLengthIsBodyLength ==
    [][ \A m \in (DOMAIN served') \ (DOMAIN served \cup {"HEAD"}) :
            Get(served'[m].resp.Headers, "Content-Length")
                = ToString(BodyWritten(served'[m].resp, fs)) ]_vars

\* C40 witness: a GET was answered with a compressed body, whose length is
\* not the file's, and the same request with another method with a 405.
C40_Witness ==
    /\ {"GET", "POST"} \subseteq DOMAIN served
    /\ Get(served["GET"].resp.Headers, "Content-Encoding") = "gzip"
    /\ served["GET"].resp.Body.enc = "gzip"
    /\ served["GET"].resp.Headers["Content-Length"] = ToString(served["GET"].resp.Body.len)
    /\ served["POST"].resp.StatusCode = 405
    /\ served["POST"].resp.Headers["Content-Length"] = ToString(served["POST"].resp.Body.len)

====
